---- MODULE Spec2Model ----
(***************************************************************************)
(* Micro-DCA vault: the vault's cycle engine and configuration             *)
(* (MicroDcaVault.sol), the factory that deploys vaults and the relayer    *)
(* that forwards signed cycles (VaultFactory.sol).                         *)
(*                                                                         *)
(* Every external call is one atomic step.  A call that reverts leaves the *)
(* contracts' state as it was; the history variable `last` records the     *)
(* most recent call, its arguments and its outcome.                        *)
(***************************************************************************)
EXTENDS Integers, Sequences, FiniteSets, TLC

\* ------------------------------------------------------------------ bounds

\* Largest value of the unsigned word (uint256 scaled down); checked
\* arithmetic fails with a Panic above it.
MaxUint == 1048575
\* block.timestamp runs over 0..MaxTime.
MaxTime == 3
\* Vaults the factory deploys in the registry specification.
MaxVaults == 2

\* ------------------------------------------------------------- identities

NULL == "0x0"
owner == "owner"
user1 == "user1"
keeper == "keeper"
ROUTER == "router"
RELAYER == "relayer"
BASE == "BASE"
\* An address that holds no token contract.
NOTOKEN == "0xEOA"
QUOTE == "QUOTE"
\* A contract that answers getConfig() but has no baseToken().
HALFVAULT == "halfVault"

Users == {owner, user1, keeper}
VaultAddrs == <<"vault1", "vault2", "vault3", "vault4">>
VaultAddrSet == {VaultAddrs[i] : i \in 1..Len(VaultAddrs)}
Holders == Users \cup {ROUTER, RELAYER} \cup VaultAddrSet
Tokens == {BASE, QUOTE}

\* Errors.sol, plus the reverts of the language and of the callees.
OK == "ok"
ErrNotKeeper == "NotKeeper"
ErrIntervalNotElapsed == "IntervalNotElapsed"
ErrCapExceeded == "CapExceeded"
ErrPaused == "Paused"
ErrZeroAddress == "ZeroAddress"
ErrInvalidParams == "InvalidParams"
ErrMetaTxExpired == "MetaTxExpired"
ErrNoQuote == "NoQuote"
ErrSlippage == "Slippage"
ErrPanic == "Panic"
ErrRouter == "RouterRevert"
ErrToken == "TokenRevert"
ErrDeploy == "DeployRevert"
ErrNoData == "RevertWithoutData"
ErrCallee == "CalleeRevert"
ErrOwnable == "OwnableUnauthorizedAccount"
ErrSignature == "ECDSAInvalidSignature"
ErrReentrant == "ReentrancyGuardReentrantCall"

VARIABLES
    now,            \* block.timestamp
    allVaults,      \* VaultFactory.allVaults
    isVault,        \* VaultFactory.isVault, as the set of addresses mapped to true
    vaults,         \* deployed vault address -> the vault's storage
    bal,            \* token -> holder -> balance
    relayerFeeBps,  \* Relayer.relayerFeeBps
    nonces,         \* Relayer.nonces
    created,        \* deployed vault address -> the call that deployed it
    executed,       \* the meta-transactions executed so far: signer and nonce
    last            \* the most recent call and its outcome

vars == <<now, allVaults, isVault, vaults, bal, relayerFeeBps, nonces, created, executed, last>>

\* ------------------------------------------------------------ arithmetic

Min(a, b) == IF a < b THEN a ELSE b

\* Solidity 0.8 checked arithmetic: the operation reverts outside 0..MaxUint.
AddOverflows(a, b) == a + b > MaxUint
MulOverflows(a, b) == a * b > MaxUint

\* The fee rounded up instead of down.
FeeOfRoundedUp(baseOut, bps) == (baseOut * bps + 9999) \div 10000

\* fee = (baseOut * feeBps) / 10_000
FeeOf(baseOut, bps) == (baseOut * bps) \div 10000

\* -------------------------------------------------------------- the vault

Deployed == DOMAIN vaults

NoCall == [op |-> "none", err |-> OK, vault |-> NULL, caller |-> NULL,
           quoteAmount |-> 0, minOut |-> 0, ret |-> 0, routerOut |-> 0,
           swapped |-> 0, fee |-> 0, signer |-> NULL, isValid |-> FALSE]

\* No executeCycle is in flight.
NoFrame == NULL

\* A constructor that leaves lastExec at zero.
NewVaultLastExecZero(_base, _quote, _intervalSeconds, _maxSlippageBps, _perCycleQuoteCap, _feeBps, _owner) ==
    [ owner |-> _owner, baseToken |-> _base, quoteToken |-> _quote,
      intervalSeconds |-> _intervalSeconds, maxSlippageBps |-> _maxSlippageBps,
      perCycleQuoteCap |-> _perCycleQuoteCap, feeBps |-> _feeBps,
      keeper |-> NULL, paused |-> FALSE, lastExec |-> 0,
      totalFilledQuote |-> 0, totalFilledBase |-> 0, totalSupply |-> 0,
      shares |-> [h \in Users |-> 0], entered |-> FALSE, frame |-> NoFrame ]

\* MicroDcaVault constructor: the storage of a freshly deployed vault.
NewVault(_base, _quote, _intervalSeconds, _maxSlippageBps, _perCycleQuoteCap, _feeBps, _owner) ==
    [ owner |-> _owner,
      baseToken |-> _base,
      quoteToken |-> _quote,
      intervalSeconds |-> _intervalSeconds,
      maxSlippageBps |-> _maxSlippageBps,
      perCycleQuoteCap |-> _perCycleQuoteCap,
      feeBps |-> _feeBps,
      keeper |-> NULL,
      paused |-> FALSE,
      lastExec |-> now,
      totalFilledQuote |-> 0,
      totalFilledBase |-> 0,
      totalSupply |-> 0,
      shares |-> [h \in Users |-> 0],
      \* ReentrancyGuard: whether an executeCycle is in flight, and the call
      \* frame of that executeCycle while the router runs the swap.
      entered |-> FALSE,
      frame |-> NoFrame ]

\* ------------------------------------------------------------ the inputs

\* Quote tokens minted to user1 and base tokens held by the router at the start.
InitQuote == 10
InitBase == 8

KeeperArgs == {NULL, keeper}

\* createVault arguments tried by the cycle specification.
CycleCreateArgs ==
    { [base |-> BASE, quote |-> QUOTE, intervalSeconds |-> i, maxSlippageBps |-> 50,
       perCycleQuoteCap |-> 10, feeBps |-> f, keeper |-> k]
      : i \in {2, MaxUint}, f \in {2500}, k \in {NULL} }

\* setConfig arguments tried by the cycle specification.
CycleConfigs ==
    { [intervalSeconds |-> 2, maxSlippageBps |-> 50, perCycleQuoteCap |-> 5,
       feeBps |-> 2500, keeper |-> NULL, paused |-> FALSE],
      [intervalSeconds |-> 1, maxSlippageBps |-> 50, perCycleQuoteCap |-> 10,
       feeBps |-> 2500, keeper |-> NULL, paused |-> TRUE],
      [intervalSeconds |-> 1, maxSlippageBps |-> 50, perCycleQuoteCap |-> 10,
       feeBps |-> 0, keeper |-> keeper, paused |-> FALSE],
      [intervalSeconds |-> 0, maxSlippageBps |-> 50, perCycleQuoteCap |-> 5,
       feeBps |-> 2500, keeper |-> NULL, paused |-> FALSE],
      [intervalSeconds |-> 1, maxSlippageBps |-> 50, perCycleQuoteCap |-> 10,
       feeBps |-> 20000, keeper |-> NULL, paused |-> FALSE],
      [intervalSeconds |-> 1, maxSlippageBps |-> 50, perCycleQuoteCap |-> 10,
       feeBps |-> 2500, keeper |-> keeper, paused |-> TRUE] }

QuoteAmounts == {0, 5, 10, 11}
MinOuts == {0, 4}
\* What the router does with a swap: it reverts of its own accord, or pays out.
RouterReverts == -1
RouterOuts == {RouterReverts, 3, 5}

\* ---------------------------------------------------------------- steps

Call(op, v, caller, err) ==
    [NoCall EXCEPT !.op = op, !.vault = v, !.caller = caller, !.err = err]

Fail(op, v, caller, err) ==
    /\ last' = Call(op, v, caller, err)
    /\ UNCHANGED <<now, allVaults, isVault, vaults, bal, relayerFeeBps, nonces, created, executed>>

\* The host's clock: block.timestamp moves on between transactions.
Tick ==
    /\ now < MaxTime
    /\ now' = now + 1
    /\ last' = NoCall
    /\ UNCHANGED <<allVaults, isVault, vaults, bal, relayerFeeBps, nonces, created, executed>>

\* ------------------------------------------------------------ the factory

\* The address the factory's next deployment gets.
NextVaultAddr == VaultAddrs[Len(allVaults) + 1]

\* The vault's constructor asks the base token for its symbol(): the
\* deployment reverts when the base address is no token contract.
HasSymbol(t) == t \in Tokens

\* A validation that lets base = quote through.
CreateVaultErrSameTokens(a) ==
    IF a.base = NULL \/ a.quote = NULL THEN ErrZeroAddress
    ELSE IF a.intervalSeconds = 0 \/ a.maxSlippageBps > 10000 \/ a.feeBps > 10000
         THEN ErrInvalidParams
    ELSE IF ~HasSymbol(a.base) THEN ErrDeploy
    ELSE OK

\* The error createVault reverts with, OK when it deploys.
CreateVaultErr(a) ==
    IF a.base = NULL \/ a.quote = NULL THEN ErrZeroAddress
    ELSE IF a.base = a.quote THEN ErrInvalidParams
    ELSE IF a.intervalSeconds = 0 \/ a.maxSlippageBps > 10000 \/ a.feeBps > 10000
         THEN ErrInvalidParams
    ELSE IF ~HasSymbol(a.base) THEN ErrDeploy
    ELSE OK

\* A tracking that pushes the vault but leaves isVault alone.
TrackSkipsIsVault(v, s, how) ==
    /\ vaults' = [a \in Deployed \cup {v} |-> IF a = v THEN s ELSE vaults[a]]
    /\ allVaults' = Append(allVaults, v)
    /\ isVault' = isVault
    /\ created' = [a \in Deployed \cup {v} |-> IF a = v THEN how ELSE created[a]]

\* Track the vault: allVaults.push(vault); isVault[vault] = true.
Track(v, s, how) ==
    /\ vaults' = [a \in Deployed \cup {v} |-> IF a = v THEN s ELSE vaults[a]]
    /\ allVaults' = Append(allVaults, v)
    /\ isVault' = isVault \cup {v}
    /\ created' = [a \in Deployed \cup {v} |-> IF a = v THEN how ELSE created[a]]

createVault(caller, a, limit) ==
    /\ Len(allVaults) < limit
    /\ IF CreateVaultErr(a) # OK
       THEN Fail("createVault", NULL, caller, CreateVaultErr(a))
       ELSE /\ Track(NextVaultAddr,
                     NewVault(a.base, a.quote, a.intervalSeconds, a.maxSlippageBps,
                              a.perCycleQuoteCap, a.feeBps, caller),
                     [by |-> "createVault", caller |-> caller, src |-> NULL, args |-> a])
            /\ last' = Call("createVault", NextVaultAddr, caller, OK)
            /\ UNCHANGED <<now, bal, relayerFeeBps, nonces, executed>>

\* What the factory finds at the address it is asked to copy.
HasCode(a) == a \in Deployed \cup Tokens \cup {ROUTER, RELAYER, HALFVAULT}
AnswersGetConfig(a) == a \in Deployed \cup {HALFVAULT}
AnswersTokens(a) == a \in Deployed

\* The error copyVault reverts with, OK when it deploys.  The catch clause
\* turns into InvalidParams a getConfig() call that reverts in src.  It does
\* not cover the decoding of the answer of an address without code, which
\* reverts in the factory without data, nor the baseToken() and quoteToken()
\* calls of the success block, whose revert is passed on as it is.
CopyVaultErr(src) ==
    IF src = NULL THEN ErrZeroAddress
    ELSE IF ~HasCode(src) THEN ErrNoData
    ELSE IF ~AnswersGetConfig(src) THEN ErrInvalidParams
    ELSE IF ~AnswersTokens(src) THEN ErrCallee
    ELSE OK

\* A copy that takes the keeper and the pause flag along from src.
copyVaultWithKeeperAndPause(caller, src, limit) ==
    /\ Len(allVaults) < limit
    /\ IF CopyVaultErr(src) # OK
       THEN Fail("copyVault", NULL, caller, CopyVaultErr(src))
       ELSE /\ src \in Deployed
            /\ LET s == vaults[src] IN
               /\ Track(NextVaultAddr,
                        [NewVault(s.baseToken, s.quoteToken, s.intervalSeconds,
                                  s.maxSlippageBps, s.perCycleQuoteCap, s.feeBps, caller)
                           EXCEPT !.keeper = s.keeper, !.paused = s.paused],
                        [by |-> "copyVault", caller |-> caller, src |-> src,
                         args |-> [base |-> s.baseToken, quote |-> s.quoteToken,
                                   intervalSeconds |-> s.intervalSeconds,
                                   maxSlippageBps |-> s.maxSlippageBps,
                                   perCycleQuoteCap |-> s.perCycleQuoteCap,
                                   feeBps |-> s.feeBps, keeper |-> NULL]])
               /\ last' = Call("copyVault", NextVaultAddr, caller, OK)
               /\ UNCHANGED <<now, bal, relayerFeeBps, nonces, executed>>

\* copyVault: the configuration read from src by getConfig(), baseToken() and
\* quoteToken(); keeper and paused are ignored and the copy starts without them.
copyVault(caller, src, limit) ==
    /\ Len(allVaults) < limit
    /\ IF CopyVaultErr(src) # OK
       THEN Fail("copyVault", NULL, caller, CopyVaultErr(src))
       ELSE /\ src \in Deployed
            /\ LET s == vaults[src] IN
               /\ Track(NextVaultAddr,
                        NewVault(s.baseToken, s.quoteToken, s.intervalSeconds,
                                 s.maxSlippageBps, s.perCycleQuoteCap, s.feeBps, caller),
                        [by |-> "copyVault", caller |-> caller, src |-> src,
                         args |-> [base |-> s.baseToken, quote |-> s.quoteToken,
                                   intervalSeconds |-> s.intervalSeconds,
                                   maxSlippageBps |-> s.maxSlippageBps,
                                   perCycleQuoteCap |-> s.perCycleQuoteCap,
                                   feeBps |-> s.feeBps, keeper |-> NULL]])
               /\ last' = Call("copyVault", NextVaultAddr, caller, OK)
               /\ UNCHANGED <<now, bal, relayerFeeBps, nonces, executed>>

\* getVaultCount(): the number of vaults created.
getVaultCount == Len(allVaults)

\* What getVault answers when it reverts with "Index out of bounds".
OutOfBounds == "Index out of bounds"

\* getVault(index): the vault at a zero-based index of allVaults.
getVault(index) == IF index < Len(allVaults) THEN allVaults[index + 1] ELSE OutOfBounds

\* getVaultsPaginated(offset, limit): total, and the slice of allVaults from
\* offset up to end = min(offset + limit, total); the sum offset + limit is
\* computed in checked arithmetic.
getVaultsPaginated(offset, limit) ==
    LET total == Len(allVaults) IN
    IF offset >= total THEN [err |-> OK, vaults |-> <<>>, total |-> total]
    ELSE IF AddOverflows(offset, limit) THEN [err |-> ErrPanic, vaults |-> <<>>, total |-> 0]
    ELSE LET end == Min(offset + limit, total)
             length == end - offset
         IN  [err |-> OK, vaults |-> [i \in 1..length |-> allVaults[offset + i]], total |-> total]

\* ------------------------------------------------- the vault's operations

\* A setConfig that forgets the pause flag.
setConfigKeepsPaused(v, caller, c) ==
    /\ v \in Deployed
    /\ IF caller # vaults[v].owner
       THEN Fail("setConfig", v, caller, ErrOwnable)
       ELSE /\ vaults' = [vaults EXCEPT ![v] =
                   [@ EXCEPT !.intervalSeconds = c.intervalSeconds,
                             !.maxSlippageBps = c.maxSlippageBps,
                             !.perCycleQuoteCap = c.perCycleQuoteCap,
                             !.feeBps = c.feeBps,
                             !.keeper = c.keeper]]
            /\ last' = Call("setConfig", v, caller, OK)
            /\ UNCHANGED <<now, allVaults, isVault, bal, relayerFeeBps, nonces, created, executed>>

\* setConfig: onlyOwner, then the six fields are overwritten with the arguments.
setConfig(v, caller, c) ==
    /\ v \in Deployed
    /\ IF caller # vaults[v].owner
       THEN Fail("setConfig", v, caller, ErrOwnable)
       ELSE /\ vaults' = [vaults EXCEPT ![v] =
                   [@ EXCEPT !.intervalSeconds = c.intervalSeconds,
                             !.maxSlippageBps = c.maxSlippageBps,
                             !.perCycleQuoteCap = c.perCycleQuoteCap,
                             !.feeBps = c.feeBps,
                             !.keeper = c.keeper,
                             !.paused = c.paused]]
            /\ last' = Call("setConfig", v, caller, OK)
            /\ UNCHANGED <<now, allVaults, isVault, bal, relayerFeeBps, nonces, created, executed>>

\* getConfig(): the six mutable fields.
getConfig(v) ==
    [intervalSeconds |-> vaults[v].intervalSeconds,
     maxSlippageBps |-> vaults[v].maxSlippageBps,
     perCycleQuoteCap |-> vaults[v].perCycleQuoteCap,
     feeBps |-> vaults[v].feeBps,
     keeper |-> vaults[v].keeper,
     paused |-> vaults[v].paused]

\* What a read returns when it reverts.
Reverted == -1

\* nextExecTime(): lastExec + intervalSeconds in checked arithmetic.
nextExecTime(v) ==
    IF AddOverflows(vaults[v].lastExec, vaults[v].intervalSeconds) THEN Reverted
    ELSE vaults[v].lastExec + vaults[v].intervalSeconds

\* A totalAssets that leaves the base tokens out.
totalAssetsQuoteOnly(v) == bal[vaults[v].quoteToken][v]

\* A totalAssets that adds the quote balance where the base balance belongs.
totalAssetsQuoteTwice(v) == bal[vaults[v].quoteToken][v] + bal[vaults[v].quoteToken][v]

\* totalAssets(): quote balance + base balance of the vault.
totalAssets(v) == bal[vaults[v].quoteToken][v] + bal[vaults[v].baseToken][v]

Move(b, token, from, to, amount) ==
    [b EXCEPT ![token] = [@ EXCEPT ![from] = @ - amount, ![to] = @ + amount]]

\* ------------------------------------------------------- the cycle engine

\* The router's swapExactTokensForTokens as the vault sees it: rOut is the
\* output the router would pay for amountIn (RouterReverts: it reverts of its
\* own accord), rEnforce whether it enforces amountOutMin itself as IRouter
\* asks.  It also fails when it cannot pay rOut from its own balance.
RouterFails(v, amountOutMin, rOut, rEnforce) ==
    \/ rOut = RouterReverts
    \/ rEnforce /\ rOut < amountOutMin
    \/ rOut > bal[vaults[v].baseToken][ROUTER]

\* No bounding: the requested amount as it is.
SoftBoundNone(v, quoteAmount) == quoteAmount

\* Balance check and soft bounding.
SoftBound(v, quoteAmount) == Min(quoteAmount, bal[vaults[v].quoteToken][v])

\* A minimum output scaled down with the bounded input.
SwapMinOutScaled(v, quoteAmount, minOut) ==
    IF quoteAmount = 0 THEN minOut
    ELSE (minOut * SoftBound(v, quoteAmount)) \div quoteAmount

\* The minimum output the vault asks of the router and checks afterwards:
\* the caller's minOut, whatever the bounding did to the input.
SwapMinOut(v, quoteAmount, minOut) == minOut

\* The pause check left out.
PausedRejectsNever(v) == FALSE

\* modifier notPaused.
PausedRejects(v) == vaults[v].paused

\* A guard that lets the nested call in.
GuardRejectsNever(v) == FALSE

\* modifier nonReentrant: a call that arrives while executeCycle is in flight.
GuardRejects(v) == vaults[v].entered

\* Access control: either anyone (keeper == 0) or the specific keeper.
KeeperRejects(v, caller) == vaults[v].keeper # NULL /\ caller # vaults[v].keeper

\* Time-based execution control.
IntervalRejects(v) == now < vaults[v].lastExec + vaults[v].intervalSeconds

\* The cap check off by one.
CapRejectsAtCap(v, quoteAmount) == quoteAmount >= vaults[v].perCycleQuoteCap

\* Cap enforcement.
CapRejects(v, quoteAmount) == quoteAmount > vaults[v].perCycleQuoteCap

CycleResult(err, ret, routerOut, swapped, fee) ==
    [err |-> err, ret |-> ret, routerOut |-> routerOut, swapped |-> swapped, fee |-> fee]

CycleFails(err) == CycleResult(err, 0, 0, 0, 0)

\* executeCycle, check by check in the order of the code; the result is the
\* error it reverts with or OK with the returned baseOut, the router's output,
\* the amount swapped and the protocol fee.
CycleOutcome(v, caller, quoteAmount, minOut, rOut, rEnforce) ==
    LET s == vaults[v]
        amt == SoftBound(v, quoteAmount)
        fee == FeeOf(rOut, s.feeBps)
    IN  IF PausedRejects(v) THEN CycleFails(ErrPaused)
        ELSE IF GuardRejects(v) THEN CycleFails(ErrReentrant)
        ELSE IF KeeperRejects(v, caller) THEN CycleFails(ErrNotKeeper)
        ELSE IF AddOverflows(s.lastExec, s.intervalSeconds) THEN CycleFails(ErrPanic)
        ELSE IF IntervalRejects(v) THEN CycleFails(ErrIntervalNotElapsed)
        ELSE IF CapRejects(v, quoteAmount) THEN CycleFails(ErrCapExceeded)
        ELSE IF ~(amt > 0) THEN CycleFails(ErrNoQuote)
        ELSE IF AddOverflows(now, 300) THEN CycleFails(ErrPanic)
        ELSE IF RouterFails(v, SwapMinOut(v, quoteAmount, minOut), rOut, rEnforce)
             THEN CycleFails(ErrRouter)
        ELSE IF ~(rOut >= SwapMinOut(v, quoteAmount, minOut)) THEN CycleFails(ErrSlippage)
        ELSE IF MulOverflows(rOut, s.feeBps) THEN CycleFails(ErrPanic)
        ELSE IF fee > 0 /\ fee > bal[s.baseToken][v] + rOut THEN CycleFails(ErrToken)
        ELSE IF fee > 0 /\ fee > rOut THEN CycleFails(ErrPanic)
        ELSE IF AddOverflows(s.totalFilledQuote, amt) THEN CycleFails(ErrPanic)
        ELSE IF AddOverflows(s.totalFilledBase, rOut - fee) THEN CycleFails(ErrPanic)
        ELSE CycleResult(OK, rOut - fee, rOut, amt, fee)

\* The token balances after a successful cycle: the router pulls the swapped
\* quote tokens and pays rOut base tokens to the vault, the vault pays the fee
\* to its owner.
BalAfterCycle(v, r) ==
    LET s == vaults[v] IN
    Move(Move(Move(bal, s.quoteToken, v, ROUTER, r.swapped),
              s.baseToken, ROUTER, v, r.routerOut),
         s.baseToken, v, s.owner, r.fee)

\* Storage that counts the router's output before the fee.
VaultAfterCycleGross(v, r) ==
    [vaults EXCEPT ![v] = [@ EXCEPT !.lastExec = now,
                                    !.totalFilledQuote = @ + r.swapped,
                                    !.totalFilledBase = @ + r.routerOut]]

\* The vault's storage after a successful cycle.
VaultAfterCycle(v, r) ==
    [vaults EXCEPT ![v] = [@ EXCEPT !.lastExec = now,
                                    !.totalFilledQuote = @ + r.swapped,
                                    !.totalFilledBase = @ + r.ret]]

\* What `last` keeps of a cycle: of a reverted one the error alone, of a
\* completed one the arguments and the amounts.
CycleCall(op, v, caller, quoteAmount, minOut, r) ==
    IF r.err # OK THEN Call(op, v, caller, r.err)
    ELSE [Call(op, v, caller, OK) EXCEPT !.quoteAmount = quoteAmount, !.minOut = minOut,
            !.ret = r.ret, !.routerOut = r.routerOut, !.swapped = r.swapped, !.fee = r.fee]

\* A cycle that fails the slippage check behind the swap and keeps the swap.
executeCycleKeepsSwap(v, caller, quoteAmount, minOut, rOut, rEnforce) ==
    /\ v \in Deployed
    /\ LET r == CycleOutcome(v, caller, quoteAmount, minOut, rOut, rEnforce) IN
       /\ last' = CycleCall("executeCycle", v, caller, quoteAmount, minOut, r)
       /\ IF r.err = OK
          THEN /\ bal' = BalAfterCycle(v, r)
               /\ vaults' = VaultAfterCycle(v, r)
               /\ UNCHANGED <<now, allVaults, isVault, relayerFeeBps, nonces, created, executed>>
          ELSE IF r.err = ErrSlippage
          THEN /\ bal' = Move(Move(bal, vaults[v].quoteToken, v, ROUTER, SoftBound(v, quoteAmount)),
                              vaults[v].baseToken, ROUTER, v, rOut)
               /\ UNCHANGED <<now, allVaults, isVault, vaults, relayerFeeBps, nonces, created, executed>>
          ELSE UNCHANGED <<now, allVaults, isVault, vaults, bal, relayerFeeBps, nonces, created, executed>>

executeCycle(v, caller, quoteAmount, minOut, rOut, rEnforce) ==
    /\ v \in Deployed
    /\ LET r == CycleOutcome(v, caller, quoteAmount, minOut, rOut, rEnforce) IN
       /\ last' = CycleCall("executeCycle", v, caller, quoteAmount, minOut, r)
       /\ IF r.err = OK
          THEN /\ bal' = BalAfterCycle(v, r)
               /\ vaults' = VaultAfterCycle(v, r)
               /\ UNCHANGED <<now, allVaults, isVault, relayerFeeBps, nonces, created, executed>>
          ELSE UNCHANGED <<now, allVaults, isVault, vaults, bal, relayerFeeBps, nonces, created, executed>>

\* executeCycle in two steps, for a router that calls other contracts while
\* it runs the swap.  The checks in front of the swap, in the order of the
\* code: the error executeCycle reverts with before it calls the router, or OK.
CycleAdmission(v, caller, quoteAmount) ==
    LET s == vaults[v] IN
        IF PausedRejects(v) THEN ErrPaused
        ELSE IF GuardRejects(v) THEN ErrReentrant
        ELSE IF KeeperRejects(v, caller) THEN ErrNotKeeper
        ELSE IF AddOverflows(s.lastExec, s.intervalSeconds) THEN ErrPanic
        ELSE IF IntervalRejects(v) THEN ErrIntervalNotElapsed
        ELSE IF CapRejects(v, quoteAmount) THEN ErrCapExceeded
        ELSE IF ~(SoftBound(v, quoteAmount) > 0) THEN ErrNoQuote
        ELSE IF AddOverflows(now, 300) THEN ErrPanic
        ELSE OK

\* First step: the checks pass, the guard is set, the router is approved and
\* called, and it pulls the swapped quote tokens.  The frame keeps the
\* arguments and the state the transaction started from, which a revert
\* restores.
executeCycleEnters(v, caller, quoteAmount, minOut) ==
    /\ v \in Deployed
    /\ LET adm == CycleAdmission(v, caller, quoteAmount)
           amt == SoftBound(v, quoteAmount)
       IN  IF adm # OK
           THEN Fail("executeCycle", v, caller, adm)
           ELSE /\ vaults' = [vaults EXCEPT ![v] =
                       [@ EXCEPT !.entered = TRUE,
                                 !.frame = [caller |-> caller, quoteAmount |-> quoteAmount,
                                            minOut |-> minOut, swapped |-> amt,
                                            vault |-> vaults[v], bal |-> bal]]]
                /\ bal' = Move(bal, vaults[v].quoteToken, v, ROUTER, amt)
                /\ last' = [Call("swapExactTokensForTokens", v, caller, OK)
                               EXCEPT !.quoteAmount = amt, !.minOut = minOut]
                /\ UNCHANGED <<now, allVaults, isVault, relayerFeeBps, nonces, created, executed>>

\* What follows the router call, read from the storage as it is when the
\* router returns: the router's revert, the slippage check, the fee and the
\* counters.
SwapSettle(v, rOut, rEnforce) ==
    LET s == vaults[v]
        f == s.frame
        fee == FeeOf(rOut, s.feeBps)
    IN  IF RouterFails(v, f.minOut, rOut, rEnforce) THEN CycleFails(ErrRouter)
        ELSE IF ~(rOut >= f.minOut) THEN CycleFails(ErrSlippage)
        ELSE IF MulOverflows(rOut, s.feeBps) THEN CycleFails(ErrPanic)
        ELSE IF fee > 0 /\ fee > bal[s.baseToken][v] + rOut THEN CycleFails(ErrToken)
        ELSE IF fee > 0 /\ fee > rOut THEN CycleFails(ErrPanic)
        ELSE IF AddOverflows(s.totalFilledQuote, f.swapped) THEN CycleFails(ErrPanic)
        ELSE IF AddOverflows(s.totalFilledBase, rOut - fee) THEN CycleFails(ErrPanic)
        ELSE CycleResult(OK, rOut - fee, rOut, f.swapped, fee)

\* Second step: the router returns or reverts.  A revert undoes the whole
\* transaction, nested calls included; otherwise the vault takes the output,
\* pays the fee, updates its counters and releases the guard.
executeCycleReturns(v, rOut, rEnforce) ==
    /\ v \in Deployed
    /\ vaults[v].entered
    /\ LET s == vaults[v]
           f == s.frame
           r == SwapSettle(v, rOut, rEnforce)
       IN  /\ last' = CycleCall("executeCycle", v, f.caller, f.quoteAmount, f.minOut, r)
           /\ IF r.err # OK
              THEN /\ vaults' = [vaults EXCEPT ![v] = f.vault]
                   /\ bal' = f.bal
              ELSE /\ bal' = Move(Move(bal, s.baseToken, ROUTER, v, r.routerOut),
                                  s.baseToken, v, s.owner, r.fee)
                   /\ vaults' = [vaults EXCEPT ![v] =
                          [@ EXCEPT !.lastExec = now,
                                    !.totalFilledQuote = @ + r.swapped,
                                    !.totalFilledBase = @ + r.ret,
                                    !.entered = FALSE,
                                    !.frame = NoFrame]]
           /\ UNCHANGED <<now, allVaults, isVault, relayerFeeBps, nonces, created, executed>>

\* A cycle that hands its proceeds to the beneficiary.
executeCyclePaysBeneficiary(v, caller, quoteAmount, minOut, beneficiary, rOut, rEnforce) ==
    /\ v \in Deployed
    /\ LET r == CycleOutcome(v, caller, quoteAmount, minOut, rOut, rEnforce) IN
       /\ last' = CycleCall("executeCycle", v, caller, quoteAmount, minOut, r)
       /\ IF r.err = OK
          THEN /\ bal' = Move(BalAfterCycle(v, r), vaults[v].baseToken, v, beneficiary, r.ret)
               /\ vaults' = VaultAfterCycle(v, r)
               /\ UNCHANGED <<now, allVaults, isVault, relayerFeeBps, nonces, created, executed>>
          ELSE UNCHANGED <<now, allVaults, isVault, vaults, bal, relayerFeeBps, nonces, created, executed>>

\* executeCycle(quoteAmount, minOut, beneficiary) with all three of its
\* arguments: the body never reads beneficiary.
executeCycleFor(v, caller, quoteAmount, minOut, beneficiary, rOut, rEnforce) ==
    executeCycle(v, caller, quoteAmount, minOut, rOut, rEnforce)

\* ------------------------------------------------------------ the relayer

MAX_RELAYER_FEE_BPS == 1000

\* Ownable(_owner): the account the relayer was constructed for.
RelayerOwner == owner

\* Relayer constructor: the error it reverts with for _initialFee.
RelayerConstructErr(_initialFee) ==
    IF _initialFee > MAX_RELAYER_FEE_BPS THEN ErrInvalidParams ELSE OK

\* A fee setter that accepts any value.
SetRelayerFeeErrUnbounded(caller, _feeBps) ==
    IF caller # RelayerOwner THEN ErrOwnable ELSE OK

\* setRelayerFee: onlyOwner, then the bound.
SetRelayerFeeErr(caller, _feeBps) ==
    IF caller # RelayerOwner THEN ErrOwnable
    ELSE IF _feeBps > MAX_RELAYER_FEE_BPS THEN ErrInvalidParams
    ELSE OK

setRelayerFee(caller, _feeBps) ==
    IF SetRelayerFeeErr(caller, _feeBps) # OK
    THEN Fail("setRelayerFee", NULL, caller, SetRelayerFeeErr(caller, _feeBps))
    ELSE /\ relayerFeeBps' = _feeBps
         /\ last' = Call("setRelayerFee", NULL, caller, OK)
         /\ UNCHANGED <<now, allVaults, isVault, vaults, bal, nonces, created, executed>>

\* A signed intent: the ExecuteCycle struct; Deadlines and Nonces are the
\* values the signers put in it.
Deadlines == {1, MaxTime}

\* A signature is known by the account hash.recover(signature) yields for
\* the intent it comes with; for a malformed signature recover reverts.
BadSignature == "malformed"

\* The base tokens the relayer may pull from the vault with transferFrom:
\* the vault approves the router alone and never the relayer.
RelayerAllowance(v) == 0

\* An admission that takes any nonce.
MetaAdmissionAnyNonce(i, signer) ==
    IF now > i.deadline THEN ErrMetaTxExpired
    ELSE IF signer = BadSignature THEN ErrSignature
    ELSE IF AddOverflows(nonces[signer], 1) THEN ErrPanic
    ELSE OK

\* An admission that lets an intent through one tick after its deadline.
MetaAdmissionLate(i, signer) ==
    IF now > i.deadline + 1 THEN ErrMetaTxExpired
    ELSE IF signer = BadSignature THEN ErrSignature
    ELSE IF i.nonce # nonces[signer] THEN ErrInvalidParams
    ELSE IF AddOverflows(nonces[signer], 1) THEN ErrPanic
    ELSE OK

\* executeMetaCycle up to the call of the vault: deadline, signature, nonce
\* and the increment of the nonce, in the order of the code.
MetaAdmission(i, signer) ==
    IF now > i.deadline THEN ErrMetaTxExpired
    ELSE IF signer = BadSignature THEN ErrSignature
    ELSE IF i.nonce # nonces[signer] THEN ErrInvalidParams
    ELSE IF AddOverflows(nonces[signer], 1) THEN ErrPanic
    ELSE OK

\* A relayer on whose behalf the vault sees the signer as the caller.
MetaOutcomeAsSigner(i, signer, rOut, rEnforce) ==
    IF MetaAdmission(i, signer) # OK THEN CycleFails(MetaAdmission(i, signer))
    ELSE CycleOutcome(i.vault, signer, i.quoteAmount, i.minOut, rOut, rEnforce)

\* executeMetaCycle(intent, signature) submitted by `submitter`, the signature
\* recovering to `signer`.  The vault sees the relayer as the caller.  The
\* relayer fee is pulled from the vault with transferFrom, for which the
\* vault has given the relayer no allowance.
MetaOutcome(i, signer, rOut, rEnforce) ==
    IF MetaAdmission(i, signer) # OK THEN CycleFails(MetaAdmission(i, signer))
    ELSE LET r == CycleOutcome(i.vault, RELAYER, i.quoteAmount, i.minOut, rOut, rEnforce)
             relayerFee == FeeOf(r.ret, relayerFeeBps)
         IN  IF r.err # OK THEN r
             ELSE IF MulOverflows(r.ret, relayerFeeBps) THEN CycleFails(ErrPanic)
             ELSE IF relayerFee > 0 /\ relayerFee > RelayerAllowance(i.vault)
                  THEN CycleFails(ErrToken)
             ELSE [r EXCEPT !.ret = @ - relayerFee]

\* A relayer that advances the nonce by two.
executeMetaCycleSkipsNonce(submitter, signer, i, rOut, rEnforce) ==
    /\ i.vault \in Deployed
    /\ LET r == MetaOutcome(i, signer, rOut, rEnforce)
           c == CycleOutcome(i.vault, RELAYER, i.quoteAmount, i.minOut, rOut, rEnforce)
       IN
       /\ last' = [CycleCall("executeMetaCycle", i.vault, submitter, i.quoteAmount, i.minOut, r)
                     EXCEPT !.signer = IF r.err = OK THEN signer ELSE NULL]
       /\ IF r.err = OK
          THEN /\ nonces' = [nonces EXCEPT ![signer] = @ + 2]
               /\ executed' = Append(executed, [signer |-> signer, nonce |-> i.nonce])
               /\ bal' = Move(BalAfterCycle(i.vault, c), vaults[i.vault].baseToken,
                              i.vault, submitter, c.ret - r.ret)
               /\ vaults' = VaultAfterCycle(i.vault, c)
               /\ UNCHANGED <<now, allVaults, isVault, relayerFeeBps, created>>
          ELSE UNCHANGED <<now, allVaults, isVault, vaults, bal, relayerFeeBps, nonces, created, executed>>

\* A relayer that keeps the incremented nonce when the vault's call fails.
executeMetaCycleKeepsNonce(submitter, signer, i, rOut, rEnforce) ==
    /\ i.vault \in Deployed
    /\ LET r == MetaOutcome(i, signer, rOut, rEnforce)
           c == CycleOutcome(i.vault, RELAYER, i.quoteAmount, i.minOut, rOut, rEnforce)
       IN
       /\ last' = [CycleCall("executeMetaCycle", i.vault, submitter, i.quoteAmount, i.minOut, r)
                     EXCEPT !.signer = IF r.err = OK THEN signer ELSE NULL]
       /\ IF r.err = OK
          THEN /\ nonces' = [nonces EXCEPT ![signer] = @ + 1]
               /\ executed' = Append(executed, [signer |-> signer, nonce |-> i.nonce])
               /\ bal' = Move(BalAfterCycle(i.vault, c), vaults[i.vault].baseToken,
                              i.vault, submitter, c.ret - r.ret)
               /\ vaults' = VaultAfterCycle(i.vault, c)
               /\ UNCHANGED <<now, allVaults, isVault, relayerFeeBps, created>>
          ELSE /\ nonces' = IF MetaAdmission(i, signer) = OK
                            THEN [nonces EXCEPT ![signer] = @ + 1] ELSE nonces
               /\ UNCHANGED <<now, allVaults, isVault, vaults, bal, relayerFeeBps, created, executed>>

executeMetaCycle(submitter, signer, i, rOut, rEnforce) ==
    /\ i.vault \in Deployed
    /\ LET r == MetaOutcome(i, signer, rOut, rEnforce)
           c == CycleOutcome(i.vault, RELAYER, i.quoteAmount, i.minOut, rOut, rEnforce)
       IN
       /\ last' = [CycleCall("executeMetaCycle", i.vault, submitter, i.quoteAmount, i.minOut, r)
                     EXCEPT !.signer = IF r.err = OK THEN signer ELSE NULL]
       /\ IF r.err = OK
          THEN /\ nonces' = [nonces EXCEPT ![signer] = @ + 1]
               /\ executed' = Append(executed, [signer |-> signer, nonce |-> i.nonce])
               /\ bal' = Move(BalAfterCycle(i.vault, c), vaults[i.vault].baseToken,
                              i.vault, submitter, c.ret - r.ret)
               /\ vaults' = VaultAfterCycle(i.vault, c)
               /\ UNCHANGED <<now, allVaults, isVault, relayerFeeBps, created>>
          ELSE UNCHANGED <<now, allVaults, isVault, vaults, bal, relayerFeeBps, nonces, created, executed>>

\* A check that forgets the deadline.
VerifySignatureNoDeadline(i, signer) ==
    IF signer = BadSignature THEN [err |-> ErrSignature, signer |-> NULL, isValid |-> FALSE]
    ELSE [err |-> OK, signer |-> signer,
          isValid |-> (i.nonce = nonces[signer]) /\ (signer # NULL)]

\* verifySignature(intent, signature): the signer and whether the intent is
\* unexpired and carries the signer's current nonce.
VerifySignature(i, signer) ==
    IF now > i.deadline THEN [err |-> OK, signer |-> NULL, isValid |-> FALSE]
    ELSE IF signer = BadSignature THEN [err |-> ErrSignature, signer |-> NULL, isValid |-> FALSE]
    ELSE [err |-> OK, signer |-> signer,
          isValid |-> (i.nonce = nonces[signer]) /\ (signer # NULL)]

\* The view function called: nothing but the record of the call changes.
verifySignature(caller, signer, i) ==
    /\ last' = [Call("verifySignature", i.vault, caller, VerifySignature(i, signer).err)
                  EXCEPT !.signer = VerifySignature(i, signer).signer,
                         !.isValid = VerifySignature(i, signer).isValid]
    /\ UNCHANGED <<now, allVaults, isVault, vaults, bal, relayerFeeBps, nonces, created, executed>>

\* ------------------------------------------------------- the share ledger

\* ERC-4626 conversions (the inherited ledger, rounding down, one virtual
\* share and one virtual asset).
\* The conversion without the virtual share and asset: one for one into an
\* empty vault, assets * totalSupply / totalAssets otherwise.
convertToSharesNoVirtual(v, assets) ==
    IF vaults[v].totalSupply = 0 \/ totalAssets(v) = 0 THEN assets
    ELSE (assets * vaults[v].totalSupply) \div totalAssets(v)

convertToShares(v, assets) == (assets * (vaults[v].totalSupply + 1)) \div (totalAssets(v) + 1)
convertToAssets(v, shares) == (shares * (totalAssets(v) + 1)) \div (vaults[v].totalSupply + 1)

DepositAmounts == {5}

\* A deposit that credits the receiver without raising the total supply.
depositSupplyKept(v, caller, assets) ==
    /\ v \in Deployed
    /\ IF bal[vaults[v].quoteToken][caller] < assets
       THEN Fail("deposit", v, caller, ErrToken)
       ELSE /\ bal' = Move(bal, vaults[v].quoteToken, caller, v, assets)
            /\ vaults' = [vaults EXCEPT ![v] =
                   [@ EXCEPT !.shares = [@ EXCEPT ![caller] = @ + convertToShares(v, assets)]]]
            /\ last' = [Call("deposit", v, caller, OK) EXCEPT !.quoteAmount = assets,
                                                           !.ret = convertToShares(v, assets)]
            /\ UNCHANGED <<now, allVaults, isVault, relayerFeeBps, nonces, created, executed>>

\* deposit(assets, receiver) by a caller who has approved the vault.
deposit(v, caller, assets) ==
    /\ v \in Deployed
    /\ IF bal[vaults[v].quoteToken][caller] < assets
       THEN Fail("deposit", v, caller, ErrToken)
       ELSE /\ bal' = Move(bal, vaults[v].quoteToken, caller, v, assets)
            /\ vaults' = [vaults EXCEPT ![v] =
                   [@ EXCEPT !.totalSupply = @ + convertToShares(v, assets),
                             !.shares = [@ EXCEPT ![caller] = @ + convertToShares(v, assets)]]]
            /\ last' = [Call("deposit", v, caller, OK) EXCEPT !.quoteAmount = assets,
                                                           !.ret = convertToShares(v, assets)]
            /\ UNCHANGED <<now, allVaults, isVault, relayerFeeBps, nonces, created, executed>>

\* redeem(shares, receiver, owner) by the holder, paid out in quote tokens.
redeem(v, caller, shares) ==
    /\ v \in Deployed
    /\ IF shares > vaults[v].shares[caller]
       THEN Fail("redeem", v, caller, "ERC4626ExceededMaxRedeem")
       ELSE IF convertToAssets(v, shares) > bal[vaults[v].quoteToken][v]
       THEN Fail("redeem", v, caller, ErrToken)
       ELSE /\ bal' = Move(bal, vaults[v].quoteToken, v, caller, convertToAssets(v, shares))
            /\ vaults' = [vaults EXCEPT ![v] =
                   [@ EXCEPT !.totalSupply = @ - shares,
                             !.shares = [@ EXCEPT ![caller] = @ - shares]]]
            /\ last' = [Call("redeem", v, caller, OK) EXCEPT !.quoteAmount = shares,
                                                          !.ret = convertToAssets(v, shares)]
            /\ UNCHANGED <<now, allVaults, isVault, relayerFeeBps, nonces, created, executed>>

\* previewWithdraw: the shares burnt for an asset amount, rounded up.
previewWithdraw(v, assets) ==
    (assets * (vaults[v].totalSupply + 1) + totalAssets(v)) \div (totalAssets(v) + 1)

\* withdraw(assets, receiver, owner) by the holder, paid out in quote tokens.
withdraw(v, caller, assets) ==
    /\ v \in Deployed
    /\ IF assets > convertToAssets(v, vaults[v].shares[caller])
       THEN Fail("withdraw", v, caller, "ERC4626ExceededMaxWithdraw")
       ELSE IF assets > bal[vaults[v].quoteToken][v]
       THEN Fail("withdraw", v, caller, ErrToken)
       ELSE /\ bal' = Move(bal, vaults[v].quoteToken, v, caller, assets)
            /\ vaults' = [vaults EXCEPT ![v] =
                   [@ EXCEPT !.totalSupply = @ - previewWithdraw(v, assets),
                             !.shares = [@ EXCEPT ![caller] = @ - previewWithdraw(v, assets)]]]
            /\ last' = [Call("withdraw", v, caller, OK) EXCEPT !.quoteAmount = assets,
                                                            !.ret = previewWithdraw(v, assets)]
            /\ UNCHANGED <<now, allVaults, isVault, relayerFeeBps, nonces, created, executed>>

\* transfer(to, amount) of the vault's share token by a holder.
transfer(v, caller, to, amount) ==
    /\ v \in Deployed
    /\ IF amount > vaults[v].shares[caller]
       THEN Fail("transfer", v, caller, "ERC20InsufficientBalance")
       ELSE /\ vaults' = [vaults EXCEPT ![v] =
                   [@ EXCEPT !.shares = [[@ EXCEPT ![caller] = @ - amount]
                                            EXCEPT ![to] = @ + amount]]]
            /\ last' = [Call("transfer", v, caller, OK) EXCEPT !.quoteAmount = amount]
            /\ UNCHANGED <<now, allVaults, isVault, bal, relayerFeeBps, nonces, created, executed>>

\* Ownable.transferOwnership(newOwner) by the owner.
transferOwnership(v, caller, newOwner) ==
    /\ v \in Deployed
    /\ IF caller # vaults[v].owner
       THEN Fail("transferOwnership", v, caller, ErrOwnable)
       ELSE /\ vaults' = [vaults EXCEPT ![v] = [@ EXCEPT !.owner = newOwner]]
            /\ last' = Call("transferOwnership", v, caller, OK)
            /\ UNCHANGED <<now, allVaults, isVault, bal, relayerFeeBps, nonces, created, executed>>

\* ------------------------------------------------------ specifications

\* After construction: the factory has deployed nothing, the relayer has
\* executed nothing, user1 holds the quote tokens and the router the base
\* tokens it pays out.
Init ==
    /\ now = 1
    /\ allVaults = <<>>
    /\ isVault = {}
    /\ vaults = <<>>
    /\ created = <<>>
    /\ bal = [t \in Tokens |-> [h \in Holders |->
                 IF t = QUOTE /\ h = user1 THEN InitQuote
                 ELSE IF t = BASE /\ h = ROUTER THEN InitBase
                 ELSE 0]]
    /\ relayerFeeBps = 0
    /\ nonces = [u \in Users |-> 0]
    /\ executed = <<>>
    /\ last = NoCall

Intents ==
    { [vault |-> v, quoteAmount |-> q, minOut |-> m, beneficiary |-> user1,
       deadline |-> d, nonce |-> n]
      : v \in Deployed, q \in {5}, m \in {4}, d \in Deadlines, n \in {0} }

\* The cycle engine of one vault.
Next ==
    \/ Tick
    \/ \E a \in CycleCreateArgs : createVault(owner, a, 1)
    \/ \E v \in Deployed, c \in CycleConfigs, who \in {owner, user1} : setConfig(v, who, c)
    \/ \E v \in Deployed, x \in DepositAmounts : deposit(v, user1, x)
    \/ \E v \in Deployed, x \in DepositAmounts : redeem(v, user1, x)
    \/ \E v \in Deployed, who \in {user1, keeper}, q \in QuoteAmounts, m \in MinOuts,
          rOut \in RouterOuts, rEnforce \in BOOLEAN :
          executeCycle(v, who, q, m, rOut, rEnforce)
    \/ \E who \in {user1}, signer \in {user1}, i \in Intents, rOut \in RouterOuts :
          executeMetaCycle(who, signer, i, rOut, TRUE)

Spec == Init /\ [][Next]_vars

\* The factory's registry: vaults created, copied and reconfigured.
FactoryCreateArgs ==
    { [base |-> BASE, quote |-> QUOTE, intervalSeconds |-> 2, maxSlippageBps |-> 50,
       perCycleQuoteCap |-> 10, feeBps |-> 2500, keeper |-> k] : k \in KeeperArgs }
    \cup
    { [base |-> b, quote |-> q, intervalSeconds |-> i, maxSlippageBps |-> m,
       perCycleQuoteCap |-> 5, feeBps |-> f, keeper |-> NULL]
      : b \in {NULL, BASE, QUOTE, NOTOKEN}, q \in {NULL, QUOTE}, i \in {0, MaxUint},
        m \in {10000, 10001}, f \in {10000, 10001} }

FactoryConfigs ==
    { [intervalSeconds |-> 1, maxSlippageBps |-> 50, perCycleQuoteCap |-> 10,
       feeBps |-> 0, keeper |-> keeper, paused |-> TRUE],
      [intervalSeconds |-> 0, maxSlippageBps |-> 50, perCycleQuoteCap |-> 5,
       feeBps |-> 2500, keeper |-> NULL, paused |-> FALSE],
      [intervalSeconds |-> 2, maxSlippageBps |-> 10001, perCycleQuoteCap |-> 10,
       feeBps |-> 2500, keeper |-> NULL, paused |-> FALSE],
      [intervalSeconds |-> 2, maxSlippageBps |-> 50, perCycleQuoteCap |-> 10,
       feeBps |-> 10001, keeper |-> NULL, paused |-> FALSE] }

\* Addresses copyVault is asked to copy besides the deployed vaults: the
\* null address, an address without code, a token and a half-compatible
\* contract.
CopySources == {NULL, NOTOKEN, QUOTE, HALFVAULT}

NextFactory ==
    \/ \E who \in {owner, user1}, a \in FactoryCreateArgs : createVault(who, a, MaxVaults)
    \/ \E who \in {owner, user1}, src \in Deployed \cup CopySources : copyVault(who, src, MaxVaults)
    \/ \E v \in Deployed, c \in FactoryConfigs, who \in {owner, user1} : setConfig(v, who, c)

SpecFactory == Init /\ [][NextFactory]_vars

\* The share ledger of one vault: deposits, withdrawals, redemptions, share
\* transfers, and a cycle once the interval has elapsed.
LedgerDeposits == {0, 3, 5}
LedgerAmounts == {3, 5}
\* The accounts callers name as beneficiary of a cycle.
Beneficiaries == {user1, keeper}

NextLedger ==
    \/ Tick
    \/ \E a \in CycleCreateArgs : createVault(owner, a, 1)
    \/ \E v \in Deployed, x \in LedgerDeposits : deposit(v, user1, x)
    \/ \E v \in Deployed, who \in {user1, keeper}, x \in LedgerAmounts : withdraw(v, who, x)
    \/ \E v \in Deployed, who \in {user1, keeper}, x \in LedgerAmounts : redeem(v, who, x)
    \/ \E v \in Deployed, x \in LedgerAmounts : transfer(v, user1, keeper, x)
    \/ \E v \in Deployed, b \in Beneficiaries, rOut \in RouterOuts :
          executeCycleFor(v, user1, 5, 0, b, rOut, TRUE)

SpecLedger == Init /\ [][NextLedger]_vars

\* A cycle whose router calls back while it runs the swap: the vault's
\* operations arrive between the two steps of executeCycle, from the router
\* itself, from the relayer, or from any account the router calls into.
ReentrantCreateArgs ==
    { [base |-> BASE, quote |-> QUOTE, intervalSeconds |-> 1, maxSlippageBps |-> 50,
       perCycleQuoteCap |-> 10, feeBps |-> 2500, keeper |-> NULL] }
ReentrantConfigs ==
    { [intervalSeconds |-> 1, maxSlippageBps |-> 50, perCycleQuoteCap |-> 5,
       feeBps |-> 0, keeper |-> NULL, paused |-> FALSE],
      [intervalSeconds |-> 1, maxSlippageBps |-> 50, perCycleQuoteCap |-> 10,
       feeBps |-> 2500, keeper |-> NULL, paused |-> TRUE] }
ReentrantDeposits == {5}
NestedAmounts == {3}
NestedCallers == {ROUTER, user1}
ReentrantIntents ==
    { [vault |-> v, quoteAmount |-> 3, minOut |-> 0, beneficiary |-> user1,
       deadline |-> MaxTime, nonce |-> 0] : v \in Deployed }
Idle == \A v \in Deployed : ~vaults[v].entered
InFlight == {v \in Deployed : vaults[v].entered}

NextReentrant ==
    \/ Idle /\ Tick
    \/ Idle /\ \E a \in ReentrantCreateArgs : createVault(owner, a, 1)
    \/ Idle /\ \E v \in Deployed, x \in ReentrantDeposits : deposit(v, user1, x)
    \/ Idle /\ \E v \in Deployed, c \in ReentrantConfigs : setConfig(v, owner, c)
    \/ Idle /\ \E v \in Deployed, who \in {user1, keeper}, q \in ReentrantDeposits, m \in MinOuts :
          executeCycleEnters(v, who, q, m)
    \/ \E v \in InFlight, who \in NestedCallers, q \in NestedAmounts, rOut \in RouterOuts :
          executeCycle(v, who, q, 0, rOut, TRUE)
    \/ \E v \in InFlight, i \in ReentrantIntents, rOut \in RouterOuts :
          i.vault = v /\ executeMetaCycle(ROUTER, user1, i, rOut, TRUE)
    \/ \E v \in InFlight, x \in NestedAmounts : deposit(v, user1, x)
    \/ \E v \in InFlight, x \in NestedAmounts : withdraw(v, user1, x)
    \/ \E v \in InFlight, x \in NestedAmounts : redeem(v, user1, x)
    \/ \E v \in InFlight, c \in ReentrantConfigs, who \in {owner, ROUTER} : setConfig(v, who, c)
    \/ \E v \in InFlight, rOut \in RouterOuts, rEnforce \in BOOLEAN :
          executeCycleReturns(v, rOut, rEnforce)

SpecReentrant == Init /\ [][NextReentrant]_vars

\* The relayer in front of one vault: signed intents with successive nonces
\* and deadlines, well-formed and malformed signatures, the owner's fee
\* setting, and a router rich enough for a relayer fee above zero.
RelayerBase == 40
InitialFees == {0, 25, MAX_RELAYER_FEE_BPS + 1}
RelayerFees == {0, MAX_RELAYER_FEE_BPS, MAX_RELAYER_FEE_BPS + 1}
RelayerRouterOuts == {RouterReverts, 10}
Signers == {user1, keeper}
MaxNonce == 2

RelayerCreateArgs ==
    { [base |-> BASE, quote |-> QUOTE, intervalSeconds |-> 1, maxSlippageBps |-> 50,
       perCycleQuoteCap |-> 10, feeBps |-> 0, keeper |-> NULL] }

RelayerConfigs ==
    { [intervalSeconds |-> 0, maxSlippageBps |-> 50, perCycleQuoteCap |-> 10,
       feeBps |-> 0, keeper |-> NULL, paused |-> FALSE],
      [intervalSeconds |-> 0, maxSlippageBps |-> 50, perCycleQuoteCap |-> 10,
       feeBps |-> 0, keeper |-> keeper, paused |-> FALSE],
      [intervalSeconds |-> 0, maxSlippageBps |-> 50, perCycleQuoteCap |-> 10,
       feeBps |-> 0, keeper |-> RELAYER, paused |-> FALSE],
      [intervalSeconds |-> 0, maxSlippageBps |-> 50, perCycleQuoteCap |-> 10,
       feeBps |-> 0, keeper |-> keeper, paused |-> TRUE] }

RelayerIntents ==
    { [vault |-> v, quoteAmount |-> 3, minOut |-> 0, beneficiary |-> user1,
       deadline |-> d, nonce |-> n]
      : v \in Deployed, d \in Deadlines, n \in 0..MaxNonce }

InitRelayer ==
    /\ now = 1
    /\ allVaults = <<>>
    /\ isVault = {}
    /\ vaults = <<>>
    /\ created = <<>>
    /\ bal = [t \in Tokens |-> [h \in Holders |->
                 IF t = QUOTE /\ h = user1 THEN InitQuote
                 ELSE IF t = BASE /\ h = ROUTER THEN RelayerBase
                 ELSE 0]]
    /\ relayerFeeBps \in {f \in InitialFees : RelayerConstructErr(f) = OK}
    /\ nonces = [u \in Users |-> 0]
    /\ executed = <<>>
    /\ last = NoCall

NextRelayer ==
    \/ Tick
    \/ \E a \in RelayerCreateArgs : createVault(owner, a, 1)
    \/ \E v \in Deployed, c \in RelayerConfigs : setConfig(v, owner, c)
    \/ \E v \in Deployed, x \in DepositAmounts : deposit(v, user1, x)
    \/ \E who \in {owner, user1}, f \in RelayerFees : setRelayerFee(who, f)
    \/ \E signer \in Signers \cup {BadSignature}, i \in RelayerIntents,
          rOut \in RelayerRouterOuts : executeMetaCycle(keeper, signer, i, rOut, TRUE)
    \/ \E signer \in Signers \cup {BadSignature}, i \in RelayerIntents :
          verifySignature(user1, signer, i)

SpecRelayer == InitRelayer /\ [][NextRelayer]_vars

\* Every state-changing operation side by side, each with inputs it accepts
\* and inputs it rejects: one created vault and one copy of it, behind a
\* relayer whose fee the owner may raise.
AtomicCreateArgs ==
    { [base |-> b, quote |-> QUOTE, intervalSeconds |-> 1, maxSlippageBps |-> 50,
       perCycleQuoteCap |-> 10, feeBps |-> 0, keeper |-> NULL] : b \in {BASE, QUOTE} }

AtomicConfigs ==
    { [intervalSeconds |-> 0, maxSlippageBps |-> 50, perCycleQuoteCap |-> 5,
       feeBps |-> 2500, keeper |-> NULL, paused |-> FALSE] }

\* The vaults the users work with: those made by createVault.
AtomicVaults == {v \in Deployed : created[v].by = "createVault"}

AtomicIntents ==
    { [vault |-> v, quoteAmount |-> 5, minOut |-> 0, beneficiary |-> user1,
       deadline |-> MaxTime, nonce |-> n] : v \in AtomicVaults, n \in {0, 1} }

NextAtomic ==
    \/ Tick
    \/ \E a \in AtomicCreateArgs : createVault(owner, a, 1)
    \/ \E src \in Deployed \cup {NULL, NOTOKEN} : copyVault(user1, src, 2)
    \/ \E v \in AtomicVaults, c \in AtomicConfigs, who \in {owner, user1} : setConfig(v, who, c)
    \/ \E v \in AtomicVaults, x \in {5, InitQuote + 1} : deposit(v, user1, x)
    \/ \E v \in AtomicVaults : withdraw(v, user1, 5)
    \/ \E v \in AtomicVaults : redeem(v, user1, 5)
    \/ \E v \in AtomicVaults, rOut \in RelayerRouterOuts \cup {3}, rEnforce \in BOOLEAN :
          executeCycle(v, user1, 5, 4, rOut, rEnforce)
    \/ setRelayerFee(owner, MAX_RELAYER_FEE_BPS)
    \/ \E i \in AtomicIntents, rOut \in RelayerRouterOuts :
          executeMetaCycle(keeper, user1, i, rOut, TRUE)

SpecAtomic == InitRelayer /\ [][NextAtomic]_vars

\* ================================================================ claims

Callers == {user1, keeper}
CycleOps == {"executeCycle", "executeMetaCycle"}

\* The router pays rOut, which is at least minOut, and does not revert.
RouterHonours(v, minOut, rOut, rEnforce) ==
    ~RouterFails(v, minOut, rOut, rEnforce) /\ rOut >= minOut

\* C1: interval gate.  On an unpaused vault an executeCycle by an authorized
\* caller at any time before lastExec + intervalSeconds fails with
\* IntervalNotElapsed; at lastExec + intervalSeconds, with
\* 0 < quoteAmount <= perCycleQuoteCap, a positive quote balance and a router
\* that honours minOut, it succeeds.  (Times are compared where the sum
\* lastExec + intervalSeconds fits the unsigned word.)
C1_IntervalGate ==
    \A v \in Deployed, who \in Callers, q \in QuoteAmounts, m \in MinOuts,
       rOut \in RouterOuts, rEnforce \in BOOLEAN :
       LET s == vaults[v]
           r == CycleOutcome(v, who, q, m, rOut, rEnforce)
       IN  ~s.paused /\ ~KeeperRejects(v, who) /\ ~AddOverflows(s.lastExec, s.intervalSeconds) =>
              /\ now < s.lastExec + s.intervalSeconds => r.err = ErrIntervalNotElapsed
              /\ ( /\ now = s.lastExec + s.intervalSeconds
                   /\ 0 < q /\ q <= s.perCycleQuoteCap
                   /\ bal[s.quoteToken][v] > 0
                   /\ RouterHonours(v, m, rOut, rEnforce) ) => r.err = OK

\* A step that completes a cycle on vault v, directly or through the relayer.
CycleDone(v) == last'.op \in CycleOps /\ last'.err = OK /\ last'.vault = v

\* C2: at most one successful cycle per interval window.  A cycle that
\* succeeds at time t2 after an earlier successful cycle at t1 (= lastExec)
\* has t2 - t1 >= intervalSeconds, and the two never share a timestamp.
C2_OneCyclePerWindow ==
    [][ \A v \in Deployed :
          CycleDone(v) /\ vaults[v].totalFilledQuote > 0 =>
             /\ now - vaults[v].lastExec >= vaults[v].intervalSeconds
             /\ now # vaults[v].lastExec ]_vars

\* The vault is as createVault left it: no time has passed and no setConfig
\* has changed what the creator asked for.
JustCreated(v) ==
    /\ created[v].by = "createVault"
    /\ vaults[v].lastExec = now
    /\ vaults[v].totalFilledQuote = 0
    /\ vaults[v].intervalSeconds = created[v].args.intervalSeconds
    /\ vaults[v].perCycleQuoteCap = created[v].args.perCycleQuoteCap
    /\ vaults[v].feeBps = created[v].args.feeBps
    /\ ~vaults[v].paused

\* C3: first cycle right after creation.  On a vault just created through
\* the factory and holding a deposit, an executeCycle issued with no time
\* elapsed, for an amount within the cap and the deposit and against a router
\* that pays at least minOut, succeeds and returns the router's output minus
\* floor(output * feeBps / 10000).
C3_FirstCycleAtCreation ==
    \A v \in Deployed, q \in QuoteAmounts, m \in MinOuts, rOut \in RouterOuts :
       LET r == CycleOutcome(v, user1, q, m, rOut, TRUE) IN
       ( /\ JustCreated(v)
         /\ 0 < q /\ q <= vaults[v].perCycleQuoteCap /\ q <= bal[vaults[v].quoteToken][v]
         /\ RouterHonours(v, m, rOut, TRUE) )
       => r.err = OK /\ r.ret = rOut - FeeOf(rOut, vaults[v].feeBps) /\ r.swapped = q

\* C4 as claimed: lastExec is initialised to the creation time, in every
\* state nextExecTime() = lastExec + intervalSeconds, and after a successful
\* cycle at time t it equals t + intervalSeconds.
C4_NextExecTime ==
    [][ \A v \in DOMAIN vaults' :
          /\ nextExecTime(v)' = vaults'[v].lastExec + vaults'[v].intervalSeconds
          /\ v \notin Deployed => vaults'[v].lastExec = now
          /\ CycleDone(v) => nextExecTime(v)' = now + vaults'[v].intervalSeconds ]_vars

\* C4 as amended: lastExec is initialised to the creation time; in every
\* state nextExecTime() returns lastExec + intervalSeconds when the sum fits
\* the unsigned word and reverts when it does not; after a successful cycle
\* at time t it returns t + intervalSeconds.
C4_NextExecTimeAmended ==
    [][ \A v \in DOMAIN vaults' :
          /\ nextExecTime(v)' =
                IF vaults'[v].lastExec + vaults'[v].intervalSeconds <= MaxUint
                THEN vaults'[v].lastExec + vaults'[v].intervalSeconds
                ELSE Reverted
          /\ v \notin Deployed => vaults'[v].lastExec = now
          /\ CycleDone(v) => nextExecTime(v)' = now + vaults'[v].intervalSeconds ]_vars

\* A cycle has just completed at a time later than the vault's creation and
\* nextExecTime() reads that time plus the interval.
C4_Witness ==
    \E v \in Deployed :
       /\ last.op = "executeCycle" /\ last.err = OK /\ last.vault = v
       /\ now > 1
       /\ vaults[v].intervalSeconds > 0
       /\ nextExecTime(v) = now + vaults[v].intervalSeconds

\* The checks of executeCycle that come before the cap check pass.
ReachesCapCheck(v, who) ==
    /\ ~PausedRejects(v) /\ ~KeeperRejects(v, who)
    /\ ~AddOverflows(vaults[v].lastExec, vaults[v].intervalSeconds)
    /\ ~IntervalRejects(v)

C6_KeeperThroughFactory ==
    \A v \in Deployed, who \in Users, q \in QuoteAmounts, m \in MinOuts, rOut \in RouterOuts :
       LET r == CycleOutcome(v, who, q, m, rOut, TRUE)
           K == created[v].args.keeper
       IN  last.op = "createVault" /\ last.err = OK /\ last.vault = v =>
              /\ K # NULL /\ who # K => r.err = ErrNotKeeper
              /\ K = NULL \/ who = K => r.err # ErrNotKeeper

\* C7: pause.  While paused is true no executeCycle, direct or through the
\* relayer, succeeds: every call that reaches the vault fails with Paused (a
\* relayed intent the relayer itself refuses, expired or with a stale nonce,
\* never reaches it), and lastExec, the counters, the balances and the nonces
\* stay as they are; only the owner's setConfig clears the flag.
C7_Pause ==
    [][ \A v \in Deployed :
          /\ vaults[v].paused =>
                \A i \in Intents, rOut \in RouterOuts, rEnforce \in BOOLEAN :
                   i.vault = v /\ now <= i.deadline /\ i.nonce = nonces[user1] =>
                      MetaOutcome(i, user1, rOut, rEnforce).err = ErrPaused
          /\ vaults[v].paused /\ last'.op \in CycleOps /\ last'.vault = v =>
                /\ last'.err # OK
                /\ last'.op = "executeCycle" => last'.err = ErrPaused
                /\ last'.op = "executeMetaCycle" =>
                      last'.err \in {ErrPaused, ErrMetaTxExpired, ErrInvalidParams}
                /\ UNCHANGED <<vaults, bal, nonces>>
          /\ vaults[v].paused /\ ~vaults'[v].paused =>
                last'.op = "setConfig" /\ last'.caller = vaults[v].owner ]_vars

\* A cycle that would otherwise run has just failed with Paused.
C7_Witness ==
    \E v \in Deployed :
       /\ last.op = "executeCycle" /\ last.err = ErrPaused /\ last.vault = v
       /\ vaults[v].paused
       /\ now >= vaults[v].lastExec + vaults[v].intervalSeconds
       /\ bal[QUOTE][v] > 0

\* C8: fee conservation.  A successful cycle with router output R returns
\* R - floor(R * feeBps / 10000), pays exactly floor(R * feeBps / 10000) base
\* tokens to the owner and raises the vault's base balance by exactly the
\* returned amount.
C8_FeeConservation ==
    [][ \A v \in Deployed :
          CycleDone(v) =>
             LET R == last'.routerOut
                 f == (R * vaults[v].feeBps) \div 10000
                 base == vaults[v].baseToken
             IN  /\ last'.ret = R - f
                 /\ bal'[base][vaults[v].owner] - bal[base][vaults[v].owner] = f
                 /\ bal'[base][v] - bal[base][v] = last'.ret ]_vars

\* A cycle has just completed and paid a fee that the division rounded down.
C8_Witness ==
    /\ last.op = "executeCycle" /\ last.err = OK
    /\ last.fee > 0
    /\ last.fee * 10000 < last.routerOut * vaults[last.vault].feeBps

\* The call gets as far as the swap and the router is able to pay rOut.
ReachesSwap(v, who, q, rOut) ==
    /\ ReachesCapCheck(v, who) /\ ~CapRejects(v, q)
    /\ SoftBound(v, q) > 0
    /\ rOut # RouterReverts /\ rOut <= bal[vaults[v].baseToken][ROUTER]

\* C9: slippage error.  With a router that enforces amountOutMin as its
\* interface asks, an executeCycle whose realized output is below minOut
\* fails with the vault's own error "Slippage"; with minOut at or below the
\* realized output (and a fee within 10000 bps) it succeeds.
C9_SlippageError ==
    \A v \in Deployed, who \in Callers, q \in QuoteAmounts, m \in MinOuts, rOut \in RouterOuts :
       LET r == CycleOutcome(v, who, q, m, rOut, TRUE) IN
       ReachesSwap(v, who, q, rOut) =>
          /\ rOut < m => r.err = ErrSlippage
          /\ rOut >= m /\ vaults[v].feeBps <= 10000 => r.err = OK

\* C10: configuration bounds.  In every state of every vault
\* maxSlippageBps <= 10000 and feeBps <= 10000.
C10_ConfigBounds ==
    \A v \in Deployed : vaults[v].maxSlippageBps <= 10000 /\ vaults[v].feeBps <= 10000

\* What setConfig must leave alone in vault v: everything but the six fields.
ConfigFrame(v) ==
    [vaults[v] EXCEPT !.intervalSeconds = 0, !.maxSlippageBps = 0, !.perCycleQuoteCap = 0,
                      !.feeBps = 0, !.keeper = NULL, !.paused = FALSE]

\* C11: setConfig is owner-only and total.  A call by the owner succeeds
\* whatever the arguments, overwrites exactly the six fields with them
\* (getConfig then returns them) and leaves lastExec, the counters, the share
\* balances, the token balances and the vault's tokens unchanged; a call by
\* anyone else fails and changes nothing.
C11_SetConfigFrame ==
    [][ \A v \in Deployed, who \in Users, c \in CycleConfigs :
          setConfig(v, who, c) =>
             /\ who = vaults[v].owner =>
                   /\ last'.err = OK
                   /\ getConfig(v)' = c
                   /\ ConfigFrame(v)' = ConfigFrame(v)
                   /\ \A u \in Deployed \ {v} : vaults'[u] = vaults[u]
                   /\ UNCHANGED <<bal, allVaults, isVault, nonces, relayerFeeBps, now>>
             /\ who # vaults[v].owner =>
                   /\ last'.err # OK
                   /\ UNCHANGED <<vaults, bal, allVaults, isVault, nonces, relayerFeeBps, now>> ]_vars

\* The owner has just reconfigured and paused a vault that has completed a
\* cycle and has shares outstanding.
C11_Witness ==
    /\ last.op = "setConfig" /\ last.err = OK
    /\ vaults[last.vault].paused
    /\ vaults[last.vault].totalFilledQuote > 0
    /\ vaults[last.vault].totalSupply > 0

\* The share balances of the holders in H added up.
RECURSIVE SumShares(_, _)
SumShares(v, H) ==
    IF H = {} THEN 0
    ELSE LET h == CHOOSE x \in H : TRUE
         IN  vaults[v].shares[h] + SumShares(v, H \ {h})

\* C12: share supply invariant.  In every state, after any sequence of
\* deposits, withdrawals, redemptions, share transfers and cycles, the share
\* balances of all holders add up to the total share supply.
C12_ShareSupply ==
    \A v \in Deployed : SumShares(v, DOMAIN vaults[v].shares) = vaults[v].totalSupply

\* Two holders have shares of a vault that has completed a cycle, and one of
\* them has just taken assets out.
C12_Witness ==
    \E v \in Deployed :
       /\ last.op \in {"withdraw", "redeem"} /\ last.err = OK /\ last.vault = v
       /\ vaults[v].shares[user1] > 0 /\ vaults[v].shares[keeper] > 0
       /\ vaults[v].totalFilledQuote > 0

\* Vault v has seen deposits, withdrawals and share transfers only: no cycle.
NoCycleYet(v) == vaults[v].totalFilledQuote = 0 /\ bal[vaults[v].baseToken][v] = 0

\* C13: share round trip.  In a state reached without a cycle, right after a
\* deposit of X > 0 the shares received can be redeemed at once and are worth
\* A assets with A <= X and X - A at most the one unit lost to rounding; the
\* redemption that follows pays exactly that, and takes exactly the redeemed
\* shares from the holder and from the supply (s shares held 1:1 pay s).
C13_ShareRoundTrip ==
    [][ \A v \in Deployed :
          ( /\ last.op = "deposit" /\ last.err = OK /\ last.vault = v
            /\ last.quoteAmount > 0 /\ NoCycleYet(v) ) =>
             LET X == last.quoteAmount
                 sh == last.ret
                 A == convertToAssets(v, sh)
                 who == last.caller
             IN  /\ A <= X /\ X - A <= 1
                 /\ sh <= vaults[v].shares[who] /\ A <= bal[vaults[v].quoteToken][v]
                 /\ ( /\ last'.op = "redeem" /\ last'.vault = v /\ last'.caller = who
                      /\ last'.quoteAmount = sh ) =>
                        /\ last'.err = OK /\ last'.ret = A
                        /\ bal'[vaults[v].quoteToken][who] = bal[vaults[v].quoteToken][who] + A
                        /\ vaults'[v].shares[who] = vaults[v].shares[who] - sh
                        /\ vaults'[v].totalSupply = vaults[v].totalSupply - sh
                        /\ vaults[v].totalSupply = totalAssets(v) => A = sh ]_vars

\* Shares have just been redeemed one for one in a vault that has run no
\* cycle and still has other shares outstanding.
C13_Witness ==
    \E v \in Deployed :
       /\ last.op = "redeem" /\ last.err = OK /\ last.vault = v
       /\ last.ret = last.quoteAmount /\ last.ret > 0
       /\ NoCycleYet(v) /\ vaults[v].totalSupply > 0

\* A step in which holder `who` deposits into vault v and the deposit goes through.
DepositDone(v, who) ==
    last'.op = "deposit" /\ last'.err = OK /\ last'.vault = v /\ last'.caller = who

C16_TotalAssets ==
    [][ \A v \in DOMAIN vaults' :
          /\ totalAssets(v)' = bal'[vaults'[v].quoteToken][v] + bal'[vaults'[v].baseToken][v]
          /\ v \notin Deployed => totalAssets(v)' = 0
          /\ v \in Deployed =>
                /\ DepositDone(v, last'.caller) =>
                      /\ totalAssets(v)' = totalAssets(v) + last'.quoteAmount
                      /\ vaults[v].totalSupply = 0 /\ totalAssets(v) = 0 =>
                            totalAssets(v)' = last'.quoteAmount
                /\ CycleDone(v) =>
                      totalAssets(v)' = totalAssets(v) - last'.swapped + last'.routerOut - last'.fee
                /\ last'.err # OK => totalAssets(v)' = totalAssets(v) ]_vars

\* A cycle that paid a fee has just completed on a vault that holds both
\* quote and base tokens.
C16_Witness ==
    \E v \in Deployed :
       /\ last.op = "executeCycle" /\ last.err = OK /\ last.vault = v
       /\ last.fee > 0
       /\ bal[vaults[v].quoteToken][v] > 0 /\ bal[vaults[v].baseToken][v] > 0

\* The arguments fail createVault's validation of the parameters.
BadParams(a) ==
    a.base = a.quote \/ a.intervalSeconds = 0 \/ a.maxSlippageBps > 10000 \/ a.feeBps > 10000

\* The step records no vault.
NoVaultRecorded == UNCHANGED <<allVaults, isVault, vaults>>

\* The step deploys and records one vault owned by `who` with the arguments a.
VaultCreatedAs(who, a) ==
    /\ last'.err = OK
    /\ Len(allVaults') = Len(allVaults) + 1
    /\ LET s == vaults'[last'.vault] IN
          /\ last'.vault \notin Deployed
          /\ s.owner = who
          /\ s.baseToken = a.base /\ s.quoteToken = a.quote
          /\ s.intervalSeconds = a.intervalSeconds
          /\ s.maxSlippageBps = a.maxSlippageBps
          /\ s.perCycleQuoteCap = a.perCycleQuoteCap
          /\ s.feeBps = a.feeBps

\* C17 as claimed: createVault fails with ZeroAddress if base or quote is
\* null, with InvalidParams if base = quote, intervalSeconds = 0,
\* maxSlippageBps > 10000 or feeBps > 10000, recording no vault in either
\* case; otherwise it deploys a vault whose owner is the caller and whose
\* tokens, interval, slippage, cap and fee equal the arguments.
C17_CreateVault ==
    [][ \A who \in Users, a \in FactoryCreateArgs :
          createVault(who, a, MaxVaults) =>
             IF a.base = NULL \/ a.quote = NULL
             THEN last'.err = ErrZeroAddress /\ NoVaultRecorded
             ELSE IF BadParams(a)
             THEN last'.err = ErrInvalidParams /\ NoVaultRecorded
             ELSE VaultCreatedAs(who, a) ]_vars

\* C17 as amended: as claimed, except that with valid parameters the vault
\* is deployed only when base is a token contract that answers symbol();
\* when it is not, the deployment reverts and no vault is recorded.
C17_CreateVaultAmended ==
    [][ \A who \in Users, a \in FactoryCreateArgs :
          createVault(who, a, MaxVaults) =>
             IF a.base = NULL \/ a.quote = NULL
             THEN last'.err = ErrZeroAddress /\ NoVaultRecorded
             ELSE IF BadParams(a)
             THEN last'.err = ErrInvalidParams /\ NoVaultRecorded
             ELSE IF ~HasSymbol(a.base)
             THEN last'.err \notin {OK, ErrZeroAddress, ErrInvalidParams} /\ NoVaultRecorded
             ELSE VaultCreatedAs(who, a) ]_vars

\* A second vault has just been created, by user1, with the largest
\* parameters the validation lets through.
C17_Witness ==
    /\ last.op = "createVault" /\ last.err = OK /\ last.caller = user1
    /\ Len(allVaults) = 2
    /\ vaults[last.vault].owner = user1
    /\ vaults[last.vault].feeBps = 10000 /\ vaults[last.vault].maxSlippageBps = 10000

\* The addresses held by a sequence.
Range(seq) == {seq[i] : i \in 1..Len(seq)}

\* Indices asked of getVault, some of them past the end.
Indices == 0..(MaxVaults + 1)

\* C18: factory registry.  allVaults is append-only in creation order; every
\* successful createVault or copyVault appends exactly one new, distinct
\* address, every failed call and every other operation appends none;
\* isVault is true exactly for the addresses in allVaults, getVaultCount()
\* is its length, getVault(i) is the i-th created vault for i below the
\* length and fails for i at or above it.
C18_Registry ==
    [][ /\ Len(allVaults') >= Len(allVaults)
        /\ SubSeq(allVaults', 1, Len(allVaults)) = allVaults
        /\ IF last'.op \in {"createVault", "copyVault"} /\ last'.err = OK
           THEN /\ allVaults' = Append(allVaults, last'.vault)
                /\ last'.vault \notin Range(allVaults)
                /\ last'.vault \notin isVault
           ELSE allVaults' = allVaults
        /\ isVault' = Range(allVaults')
        /\ Cardinality(Range(allVaults')) = Len(allVaults')
        /\ getVaultCount' = Len(allVaults')
        /\ \A i \in Indices :
              getVault(i)' = IF i < Len(allVaults') THEN allVaults'[i + 1] ELSE OutOfBounds ]_vars

\* A copy has just been appended behind the vault it was copied from.
C18_Witness ==
    /\ last.op = "copyVault" /\ last.err = OK
    /\ Len(allVaults) = 2
    /\ getVault(1) = last.vault /\ getVault(0) # last.vault
    /\ getVault(2) = OutOfBounds

\* Offsets and limits asked of getVaultsPaginated, up to the largest word.
Offsets == 0..(MaxVaults + 1)
Limits == 0..(MaxVaults + 1) \cup {MaxUint}

\* The pages (0, limit), (limit, limit), ... up to page k, one after another.
RECURSIVE Pages(_, _)
Pages(limit, k) ==
    IF k = 0 THEN <<>>
    ELSE Pages(limit, k - 1) \o getVaultsPaginated((k - 1) * limit, limit).vaults

\* C19: pagination.  For every offset and limit getVaultsPaginated returns
\* total together with exactly the entries of allVaults at the indices
\* offset .. min(offset + limit, total) - 1 in creation order, and the empty
\* sequence when offset >= total; consecutive pages put one after another
\* give allVaults back without gaps or duplicates.
C19_Pagination ==
    LET total == Len(allVaults) IN
    /\ \A offset \in Offsets, limit \in Limits :
          LET r == getVaultsPaginated(offset, limit)
              end == Min(offset + limit, total)
          IN  /\ r.err = OK /\ r.total = total
              /\ offset >= total => r.vaults = <<>>
              /\ offset < total => r.vaults = SubSeq(allVaults, offset + 1, end)
    /\ \A limit \in Limits \ {0} : Pages(limit, total) = allVaults

\* C20: copy independence.  Whatever state the source vault is in (keeper
\* set or not, paused or not, reconfigured since its creation), a successful
\* copyVault(src) by caller c yields a vault with src's base and quote
\* tokens and src's current intervalSeconds, maxSlippageBps,
\* perCycleQuoteCap and feeBps, owner c, no keeper and paused = false, and
\* leaves src as it was.
C20_CopyIndependence ==
    [][ \A c \in Users, src \in Deployed :
          copyVault(c, src, MaxVaults) /\ last'.err = OK =>
             LET copy == vaults'[last'.vault]
                 s == vaults[src]
             IN  /\ last'.vault \notin Deployed
                 /\ copy.baseToken = s.baseToken /\ copy.quoteToken = s.quoteToken
                 /\ copy.intervalSeconds = s.intervalSeconds
                 /\ copy.maxSlippageBps = s.maxSlippageBps
                 /\ copy.perCycleQuoteCap = s.perCycleQuoteCap
                 /\ copy.feeBps = s.feeBps
                 /\ copy.owner = c
                 /\ copy.keeper = NULL /\ copy.paused = FALSE
                 /\ \A u \in Deployed : vaults'[u] = vaults[u]
                 /\ UNCHANGED bal ]_vars

\* A vault that its owner has reconfigured, given a keeper and paused has
\* just been copied by someone else.
C20_Witness ==
    /\ last.op = "copyVault" /\ last.err = OK
    /\ LET src == created[last.vault].src IN
          /\ vaults[src].paused /\ vaults[src].keeper # NULL
          /\ vaults[src].feeBps # created[src].args.feeBps
          /\ vaults[src].owner # last.caller
          /\ vaults[last.vault].feeBps = vaults[src].feeBps

\* C21: copyVault failures.  copyVault(null) fails with ZeroAddress;
\* copyVault(src) fails with InvalidParams whenever a read of src's
\* configuration or of its base or quote token address fails; in both cases
\* no vault is deployed or recorded.
C21_CopyVaultFailures ==
    [][ \A c \in Users, src \in Deployed \cup CopySources :
          copyVault(c, src, MaxVaults) =>
             /\ src = NULL => last'.err = ErrZeroAddress
             /\ src # NULL /\ ~(AnswersGetConfig(src) /\ AnswersTokens(src))
                   => last'.err = ErrInvalidParams
             /\ last'.err # OK => NoVaultRecorded ]_vars

\* A successful meta-transaction carrying signer's signature has just run.
MetaDone(signer) ==
    last'.op = "executeMetaCycle" /\ last'.err = OK /\ last'.signer = signer

\* C22: nonce monotonicity.  Every signer's nonce starts at 0; each
\* successful executeMetaCycle carrying the signer's signature raises it by
\* exactly 1 and leaves the other signers' nonces alone; no other operation
\* and no failed call changes any nonce.
C22_NonceMonotonic ==
    /\ \A s \in Users : nonces[s] = 0
    /\ [][ \A s \in Users :
              /\ MetaDone(s) => nonces'[s] = nonces[s] + 1
              /\ ~MetaDone(s) => nonces'[s] = nonces[s] ]_vars

\* Two signers have had meta-transactions executed, one of them twice.
C22_Witness ==
    /\ last.op = "executeMetaCycle" /\ last.err = OK
    /\ nonces[user1] = 2 /\ nonces[keeper] = 1

\* Every executed meta-transaction carried the nonce that counts the
\* signer's earlier ones: each signer's nonces ran 0, 1, 2, ... without gap
\* or repetition.
ExecutedInOrder ==
    \A k \in 1..Len(executed) :
        executed[k].nonce =
            Cardinality({j \in 1..(k - 1) : executed[j].signer = executed[k].signer})

\* The meta-transaction executed last, as the step that executed it left it.
JustExecuted == executed'[Len(executed')]

\* C23: replay protection and ordering.  An intent signed with nonce n
\* succeeds only where nonces[signer] = n and fails with InvalidParams
\* otherwise; so each (signer, nonce) pair is executed at most once, a
\* signer's intents succeed in the order 0, 1, 2, ... only, and an intent
\* resubmitted after its success fails.
C23_ReplayProtection ==
    /\ []ExecutedInOrder
    /\ [](\A signer \in Signers, i \in RelayerIntents, rOut \in RelayerRouterOuts :
            i.nonce # nonces[signer] =>
               MetaOutcome(i, signer, rOut, TRUE).err = ErrInvalidParams)
    /\ [][ last'.op = "executeMetaCycle" /\ last'.err = OK =>
              /\ JustExecuted.signer = last'.signer
              /\ JustExecuted.nonce = nonces[last'.signer]
              /\ JustExecuted.nonce # nonces'[last'.signer] ]_vars

\* C23 (amended): an intent signed with nonce n succeeds only where
\* nonces[signer] = n; otherwise it fails, with MetaTxExpired when its
\* deadline has passed and with InvalidParams when it has not.  Each
\* (signer, nonce) pair is executed at most once, a signer's intents
\* succeed in the order 0, 1, 2, ... only, and an intent resubmitted after
\* its success fails.
C23_ReplayProtectionAmended ==
    /\ []ExecutedInOrder
    /\ [](\A signer \in Signers, i \in RelayerIntents, rOut \in RelayerRouterOuts :
            i.nonce # nonces[signer] =>
               MetaOutcome(i, signer, rOut, TRUE).err =
                  IF now > i.deadline THEN ErrMetaTxExpired ELSE ErrInvalidParams)
    /\ [][ last'.op = "executeMetaCycle" /\ last'.err = OK =>
              /\ JustExecuted.signer = last'.signer
              /\ JustExecuted.nonce = nonces[last'.signer]
              /\ JustExecuted.nonce # nonces'[last'.signer] ]_vars

\* After two meta-transactions of one signer, a call is refused for its nonce.
C23_Witness ==
    /\ last.op = "executeMetaCycle" /\ last.err = ErrInvalidParams
    /\ Len(executed) >= 2
    /\ executed[1].signer = executed[2].signer

\* C24: relayer success path.  For every relayerFeeBps in 0..1000, an
\* unexpired, correctly signed intent carrying the signer's current nonce
\* whose executeCycle succeeds returning B makes executeMetaCycle succeed,
\* move floor(B * relayerFeeBps / 10000) base tokens from the vault to the
\* submitting caller and return B less that fee.
C24_RelayerSuccessPath ==
    [][ last'.op = "executeMetaCycle" =>
        \A signer \in Signers, i \in RelayerIntents, rOut \in RelayerRouterOuts :
          LET c == CycleOutcome(i.vault, RELAYER, i.quoteAmount, i.minOut, rOut, TRUE)
              relayerFee == FeeOf(c.ret, relayerFeeBps)
              base == vaults[i.vault].baseToken
          IN  /\ now <= i.deadline /\ i.nonce = nonces[signer] /\ c.err = OK
              /\ executeMetaCycle(keeper, signer, i, rOut, TRUE)
              => /\ last'.err = OK
                 /\ last'.ret = c.ret - relayerFee
                 /\ bal'[base][keeper] = bal[base][keeper] + relayerFee
                 /\ bal'[base][i.vault] = bal[base][i.vault] + c.ret - relayerFee ]_vars

\* The failures of the vault's executeCycle and of the fee transfer, which
\* the relayer meets after it has incremented the nonce.
LateFailures == {ErrPaused, ErrNotKeeper, ErrIntervalNotElapsed, ErrCapExceeded,
                 ErrNoQuote, ErrRouter, ErrSlippage, ErrToken, ErrPanic}

\* C25: failed meta-transactions consume nothing.  Whatever makes
\* executeMetaCycle fail (deadline, nonce, the vault's executeCycle or the
\* fee transfer after the nonce was incremented), the nonces and everything
\* else stay as they were, so the intent is admitted afterwards exactly as
\* before; when it is the vault's executeCycle that fails, the caller gets
\* the vault's own failure.
C25_FailedMetaConsumesNothing ==
    /\ [](\A signer \in Signers, i \in RelayerIntents, rOut \in RelayerRouterOuts :
            LET c == CycleOutcome(i.vault, RELAYER, i.quoteAmount, i.minOut, rOut, TRUE) IN
            MetaAdmission(i, signer) = OK /\ c.err # OK
               => MetaOutcome(i, signer, rOut, TRUE).err = c.err)
    /\ [][ last'.op = "executeMetaCycle" /\ last'.err # OK =>
              /\ UNCHANGED <<nonces, executed, vaults, bal, relayerFeeBps, now>>
              /\ \A signer \in Signers, i \in RelayerIntents :
                    MetaAdmission(i, signer)' = MetaAdmission(i, signer) ]_vars

\* A meta-transaction has failed behind the nonce increment, and the
\* signer's nonce still stands where the one executed before had left it.
C25_Witness ==
    /\ last.op = "executeMetaCycle" /\ last.err \in LateFailures
    /\ Len(executed) = 1
    /\ nonces[executed[1].signer] = 1

\* C26: meta-transaction deadline.  executeMetaCycle fails with
\* MetaTxExpired exactly when the current time is past intent.deadline,
\* whatever the signature and the nonce are; at now = deadline the intent is
\* still admitted; time never runs backwards, so an expired intent stays
\* expired.
C26_MetaDeadline ==
    /\ [](\A signer \in Signers \cup {BadSignature}, i \in RelayerIntents,
             rOut \in RelayerRouterOuts :
            MetaOutcome(i, signer, rOut, TRUE).err = ErrMetaTxExpired <=> now > i.deadline)
    /\ [][ /\ now' >= now
           /\ \A signer \in Signers \cup {BadSignature}, i \in RelayerIntents :
                 MetaAdmission(i, signer) = ErrMetaTxExpired
                    => MetaAdmission(i, signer)' = ErrMetaTxExpired ]_vars

\* A meta-transaction executed at the very time of its deadline, the latest
\* deadline the signers use.
C26_Witness ==
    /\ last.op = "executeMetaCycle" /\ last.err = OK
    /\ now = MaxTime

\* The relayer's deadline, signature and nonce checks let the intent through.
PassesChecks(i, signer) ==
    MetaAdmission(i, signer) \notin {ErrMetaTxExpired, ErrSignature, ErrInvalidParams}

\* C27: verifySignature predicts the relayer's admission checks and reads
\* only.  It changes no state; isValid is false for an expired intent and
\* for a nonce other than nonces[signer] (and for a null signer); isValid
\* is true exactly where executeMetaCycle with the same intent and
\* signature passes its deadline and nonce checks.
C27_VerifySignature ==
    [][ last'.op = "verifySignature" =>
        /\ UNCHANGED <<now, allVaults, isVault, vaults, bal, relayerFeeBps, nonces,
                       created, executed>>
        /\ \A signer \in Signers \cup {BadSignature}, i \in RelayerIntents :
              verifySignature(user1, signer, i) =>
                 /\ now > i.deadline => ~last'.isValid
                 /\ signer \in Signers /\ i.nonce # nonces[signer] => ~last'.isValid
                 /\ last'.signer = NULL => ~last'.isValid
                 /\ last'.isValid <=> PassesChecks(i, signer) ]_vars

\* After one executed meta-transaction, the signer's next intent is found valid.
C27_Witness ==
    /\ last.op = "verifySignature" /\ last.isValid
    /\ Len(executed) >= 1
    /\ nonces[last.signer] >= 1

\* C28: relayer fee bound.  relayerFeeBps never exceeds 1000; construction
\* with an initial fee above 1000 and setRelayerFee with a value above 1000
\* fail with InvalidParams and leave the fee as it was; setRelayerFee by a
\* non-owner fails and leaves it as it was.
C28_RelayerFeeBound ==
    /\ [](relayerFeeBps <= MAX_RELAYER_FEE_BPS)
    /\ \A f \in InitialFees :
          f > MAX_RELAYER_FEE_BPS => RelayerConstructErr(f) = ErrInvalidParams
    /\ [][ last'.op = "setRelayerFee" =>
            \A who \in Users, f \in RelayerFees :
              setRelayerFee(who, f) =>
                 /\ f > MAX_RELAYER_FEE_BPS =>
                       last'.err = ErrInvalidParams /\ UNCHANGED relayerFeeBps
                 /\ who # RelayerOwner => last'.err # OK /\ UNCHANGED relayerFeeBps ]_vars

\* C28 (amended): relayerFeeBps never exceeds 1000; construction with an
\* initial fee above 1000 fails with InvalidParams; setRelayerFee with a
\* value above 1000 fails and leaves the fee as it was, with InvalidParams
\* when the owner calls; setRelayerFee by a non-owner fails with the
\* ownership error, whatever the value, and leaves the fee as it was.
C28_RelayerFeeBoundAmended ==
    /\ [](relayerFeeBps <= MAX_RELAYER_FEE_BPS)
    /\ \A f \in InitialFees :
          f > MAX_RELAYER_FEE_BPS => RelayerConstructErr(f) = ErrInvalidParams
    /\ [][ last'.op = "setRelayerFee" =>
            \A who \in Users, f \in RelayerFees :
              setRelayerFee(who, f) =>
                 /\ f > MAX_RELAYER_FEE_BPS =>
                       /\ last'.err # OK /\ UNCHANGED relayerFeeBps
                       /\ who = RelayerOwner => last'.err = ErrInvalidParams
                 /\ who # RelayerOwner =>
                       last'.err = ErrOwnable /\ UNCHANGED relayerFeeBps ]_vars

\* The owner, having set the highest fee allowed, is refused a higher one.
C28_Witness ==
    /\ last.op = "setRelayerFee" /\ last.err = ErrInvalidParams
    /\ last.caller = RelayerOwner
    /\ relayerFeeBps = MAX_RELAYER_FEE_BPS

\* The operations the atomicity claim names.
MutatingOps == {"deposit", "withdraw", "redeem", "executeCycle", "setConfig",
                "createVault", "copyVault", "executeMetaCycle"}

\* C29: all-or-nothing.  A failing deposit, withdraw, redeem, executeCycle,
\* setConfig, createVault, copyVault or executeMetaCycle leaves the whole
\* state as it was: configuration, lastExec, cumulative counters, share
\* balances, token balances, the factory's registry and the nonces, also
\* when it fails behind the router swap or behind the fee transfer.
C29_AllOrNothing ==
    [][ last'.op \in MutatingOps /\ last'.err # OK =>
          UNCHANGED <<now, allVaults, isVault, vaults, bal, relayerFeeBps, nonces,
                      created, executed>> ]_vars

\* A relayed cycle has failed at the relayer's fee transfer, behind the
\* vault's swap and fee transfer, in a vault that has filled cycles before.
C29_Witness ==
    /\ last.op = "executeMetaCycle" /\ last.err = ErrToken
    /\ relayerFeeBps = MAX_RELAYER_FEE_BPS
    /\ \E v \in Deployed : vaults[v].totalFilledQuote > 0 /\ last.vault = v

C31_AuthorizationFirst ==
    \A v \in Deployed, who \in Callers, q \in QuoteAmounts, m \in MinOuts,
       rOut \in RouterOuts, rEnforce \in BOOLEAN :
       vaults[v].keeper # NULL /\ who # vaults[v].keeper =>
          CycleOutcome(v, who, q, m, rOut, rEnforce).err = ErrNotKeeper

\* C32: soft bound.  In an executeCycle that passes the pause, keeper,
\* interval and cap checks, the amount sent to the router is
\* min(quoteAmount, the vault's quote balance): a request above a positive
\* balance fares exactly as a request for the balance, and the call fails
\* with the generic NoQuote error, changing nothing, when the bounded amount
\* is zero (quoteAmount = 0 or no quote balance).
C32_SoftBound ==
    /\ [](\A v \in Deployed, who \in Callers, q \in QuoteAmounts, m \in MinOuts,
             rOut \in RouterOuts, rEnforce \in BOOLEAN :
            LET r == CycleOutcome(v, who, q, m, rOut, rEnforce)
                avail == bal[vaults[v].quoteToken][v]
            IN  ReachesCapCheck(v, who) /\ q <= vaults[v].perCycleQuoteCap =>
                   /\ (q = 0 \/ avail = 0) <=> r.err = ErrNoQuote
                   /\ r.err = OK => r.swapped = Min(q, avail)
                   /\ q > avail /\ avail > 0 =>
                         r = CycleOutcome(v, who, avail, m, rOut, rEnforce))
    /\ [][ \A v \in Deployed :
              /\ last'.op = "executeCycle" /\ last'.vault = v /\ last'.err = OK =>
                    LET quote == vaults[v].quoteToken IN
                    /\ last'.swapped = Min(last'.quoteAmount, bal[quote][v])
                    /\ bal'[quote][v] = bal[quote][v] - last'.swapped
                    /\ bal'[quote][ROUTER] = bal[quote][ROUTER] + last'.swapped
              /\ last'.op = "executeCycle" /\ last'.vault = v /\ last'.err = ErrNoQuote =>
                    UNCHANGED <<vaults, bal>> ]_vars

\* A cycle asked for more than the vault held and swapped what it held.
C32_Witness ==
    /\ last.op = "executeCycle" /\ last.err = OK
    /\ 0 < last.swapped /\ last.swapped < last.quoteAmount

\* C33: the soft bound keeps the caller's minOut.  When quoteAmount is
\* reduced to the quote balance, the swap and the slippage check use the
\* minOut the caller gave for the larger input, unscaled: the cycle succeeds
\* only if the router's output for the reduced input is at least that
\* minOut and fails otherwise.
C33_SoftBoundKeepsMinOut ==
    /\ [](\A v \in Deployed, who \in Callers, q \in QuoteAmounts, m \in MinOuts,
             rOut \in RouterOuts, rEnforce \in BOOLEAN :
            LET r == CycleOutcome(v, who, q, m, rOut, rEnforce)
                avail == bal[vaults[v].quoteToken][v]
            IN  q > avail /\ avail > 0 =>
                   /\ r.err = OK => r.routerOut >= m /\ r.swapped = avail
                   /\ rOut < m => r.err # OK
                   /\ ReachesSwap(v, who, q, rOut) /\ rOut < m =>
                         r.err \in {ErrRouter, ErrSlippage})
    /\ [][ last'.op = "executeCycle" /\ last'.err = OK
              /\ last'.swapped < last'.quoteAmount
              => last'.routerOut >= last'.minOut ]_vars

\* A cycle bounded to half the requested input has met the minOut asked
\* for the whole of it.
C33_Witness ==
    /\ last.op = "executeCycle" /\ last.err = OK
    /\ last.swapped < last.quoteAmount
    /\ last.minOut > 0 /\ last.routerOut >= last.minOut
    /\ (last.minOut * last.swapped) \div last.quoteAmount < last.minOut

\* C34: cycle bookkeeping.  A successful executeCycle at time t sets
\* lastExec = t, adds the amount actually swapped (after soft bounding) to
\* totalFilledQuote, adds the post-fee output to totalFilledBase and emits
\* Fill(t, swapped amount, post-fee output); no other operation writes these
\* fields, so they never decrease and change only on successful cycles.
C34_CycleBookkeeping ==
    [][ \A v \in Deployed :
          LET s == vaults[v]
              t == vaults'[v]
          IN  /\ t.lastExec >= s.lastExec
              /\ t.totalFilledQuote >= s.totalFilledQuote
              /\ t.totalFilledBase >= s.totalFilledBase
              /\ IF CycleDone(v)
                 THEN /\ t.lastExec = now /\ now' = now
                      /\ last'.swapped = Min(last'.quoteAmount, bal[s.quoteToken][v])
                      /\ t.totalFilledQuote = s.totalFilledQuote + last'.swapped
                      /\ last'.ret = last'.routerOut - last'.fee
                      /\ t.totalFilledBase = s.totalFilledBase + last'.ret
                 ELSE /\ t.lastExec = s.lastExec
                      /\ t.totalFilledQuote = s.totalFilledQuote
                      /\ t.totalFilledBase = s.totalFilledBase ]_vars

\* A second successful cycle, soft-bounded and paying a fee, has been counted.
C34_Witness ==
    /\ last.op \in CycleOps /\ last.err = OK /\ last.fee > 0
    /\ last.swapped < last.quoteAmount
    /\ vaults[last.vault].totalFilledQuote > last.swapped
    /\ vaults[last.vault].totalFilledBase > last.ret
    /\ vaults[last.vault].lastExec = now

\* The state a vault's in-flight executeCycle started from.
Started(v) == vaults[v].frame.vault
\* A step taken by a call that arrived at vault v while its cycle was in flight.
NestedStep(v) ==
    vaults[v].entered /\ vaults'[v].entered /\ last'.vault = v /\ last' # last
\* The step in which the in-flight cycle of vault v completes.
CycleReturns(v) ==
    vaults[v].entered /\ ~vaults'[v].entered /\ last'.op = "executeCycle" /\ last'.err = OK

\* C35: reentrancy guard on the cycle engine.  If the router, while executing
\* the swap triggered by executeCycle, calls executeCycle on the same vault
\* again (directly or through the relayer), the nested call is rejected, so a
\* single outer call performs at most one swap, one fee transfer and one
\* lastExec/counter update.
C35_ReentrancyGuard ==
    /\ [](\A v \in InFlight :
            /\ \A who \in NestedCallers \cup {RELAYER}, q \in QuoteAmounts, m \in MinOuts,
                  rOut \in RouterOuts, rEnforce \in BOOLEAN :
                  CycleOutcome(v, who, q, m, rOut, rEnforce).err \in {ErrPaused, ErrReentrant}
            /\ \A i \in ReentrantIntents, signer \in Signers, rOut \in RouterOuts :
                  i.vault = v => MetaOutcome(i, signer, rOut, TRUE).err # OK)
    /\ [][ \A v \in Deployed :
             /\ NestedStep(v) /\ last'.op \in CycleOps =>
                   /\ last'.err \in {ErrPaused, ErrReentrant}
                   /\ UNCHANGED <<vaults, bal, nonces, executed>>
             /\ CycleReturns(v) =>
                   LET s == Started(v)
                       f == vaults[v].frame
                       t == vaults'[v]
                   IN  /\ last'.swapped = f.swapped
                       /\ bal'[s.quoteToken][ROUTER] = f.bal[s.quoteToken][ROUTER] + last'.swapped
                       /\ bal'[s.baseToken][ROUTER] = f.bal[s.baseToken][ROUTER] - last'.routerOut
                       /\ bal'[s.baseToken][s.owner] = f.bal[s.baseToken][s.owner] + last'.fee
                       /\ bal'[s.baseToken][v] = f.bal[s.baseToken][v] + last'.ret
                       /\ t.lastExec = now
                       /\ t.totalFilledQuote = s.totalFilledQuote + last'.swapped
                       /\ t.totalFilledBase = s.totalFilledBase + last'.ret ]_vars

\* The router has called executeCycle from inside the swap, directly or
\* through the relayer, and the guard has turned the call away.
C35_Witness ==
    /\ last.op \in CycleOps /\ last.err = ErrReentrant
    /\ last.vault \in InFlight
    /\ last.caller = ROUTER

\* C36: no vault operation other than the in-flight cycle completes during
\* the router call.  While executeCycle is inside the router swap, a
\* reentrant deposit, withdraw, redeem or setConfig on the same vault is
\* rejected, so share supply, share price inputs and configuration are the
\* same before and after the router call.
C36_NoOperationDuringSwap ==
    [][ \A v \in Deployed :
          /\ NestedStep(v) /\ last'.op \in {"deposit", "withdraw", "redeem", "setConfig"} =>
                last'.err # OK
          /\ vaults'[v].entered =>
                /\ vaults'[v].totalSupply = Started(v)'.totalSupply
                /\ vaults'[v].shares = Started(v)'.shares
                /\ getConfig(v)' = [intervalSeconds |-> Started(v)'.intervalSeconds,
                                     maxSlippageBps |-> Started(v)'.maxSlippageBps,
                                     perCycleQuoteCap |-> Started(v)'.perCycleQuoteCap,
                                     feeBps |-> Started(v)'.feeBps,
                                     keeper |-> Started(v)'.keeper,
                                     paused |-> Started(v)'.paused] ]_vars

\* C37: shares stay redeemable.  In every reachable state, including after
\* successful cycles have converted quote tokens into base tokens, a holder
\* calling redeem(s, receiver, holder) with 0 < s <= their share balance
\* succeeds and receives the asset amount previewRedeem(s) reports; withdraw
\* and redeem fail only when the owner's share balance is insufficient.
C37_SharesRedeemable ==
    /\ [](\A v \in Deployed, who \in Users, s \in LedgerAmounts :
            0 < s /\ s <= vaults[v].shares[who] =>
               convertToAssets(v, s) <= bal[vaults[v].quoteToken][v])
    /\ [][ \A v \in Deployed :
             /\ last'.op = "redeem" /\ last'.vault = v /\ last'.err = OK =>
                   /\ last'.ret = convertToAssets(v, last'.quoteAmount)
                   /\ bal'[vaults[v].quoteToken][last'.caller]
                         = bal[vaults[v].quoteToken][last'.caller] + last'.ret
             /\ last'.op = "redeem" /\ last'.vault = v /\ last'.err # OK =>
                   last'.err = "ERC4626ExceededMaxRedeem"
             /\ last'.op = "withdraw" /\ last'.vault = v /\ last'.err # OK =>
                   last'.err = "ERC4626ExceededMaxWithdraw" ]_vars

\* C38: every vault recorded by the factory was constructed with valid
\* parameters.  For every address in allVaults, whether produced by
\* createVault or copyVault (from any src, including one whose owner changed
\* its config with setConfig), the vault's construction parameters satisfy
\* intervalSeconds != 0, maxSlippageBps <= 10000, feeBps <= 10000 and
\* base != quote.
C38_RecordedVaultsValid ==
    \A i \in 1..Len(allVaults) :
       LET a == created[allVaults[i]].args IN
          /\ a.intervalSeconds # 0
          /\ a.maxSlippageBps <= 10000
          /\ a.feeBps <= 10000
          /\ a.base # a.quote

\* What the vault answers to the relayer's call for intent i.
VaultSide(i, who, rOut) == CycleOutcome(i.vault, who, i.quoteAmount, i.minOut, rOut, TRUE)

\* The parts of C39 that do not depend on which error is reported: a relayed
\* cycle on a vault with a keeper succeeds only if the keeper is the relayer,
\* and on a vault without keeper neither the signer nor the caller matters.
RelayerIsTheCaller ==
    /\ [](\A i \in RelayerIntents, signer \in Signers \cup {BadSignature},
             rOut \in RelayerRouterOuts :
            LET s == vaults[i.vault]
                r == MetaOutcome(i, signer, rOut, TRUE)
            IN  /\ s.keeper # NULL /\ r.err = OK => s.keeper = RELAYER
                /\ s.keeper = NULL /\ MetaAdmission(i, signer) = OK =>
                      /\ \A who \in Callers \cup {RELAYER} :
                            VaultSide(i, who, rOut) = VaultSide(i, RELAYER, rOut)
                      /\ \A j \in RelayerIntents, other \in Signers :
                            /\ j.vault = i.vault
                            /\ MetaAdmission(j, other) = OK
                            => MetaOutcome(j, other, rOut, TRUE) = r)
    /\ [][ last'.op = "executeMetaCycle" /\ last'.err = OK =>
              vaults[last'.vault].keeper \in {NULL, RELAYER} ]_vars

HugeLimits == {MaxUint - 1, MaxUint}

\* C40: no arithmetic failure in pagination.  For every offset < total and
\* every limit in the full unsigned range (including limits for which
\* offset + limit exceeds the largest word), getVaultsPaginated returns the
\* slice from offset to the end of the registry instead of failing.
C40_PaginationNeverFails ==
    LET total == Len(allVaults) IN
    \A offset \in Offsets, limit \in Limits \cup HugeLimits :
       offset < total =>
          LET r == getVaultsPaginated(offset, limit) IN
             /\ r.err # ErrPanic
             /\ limit >= total - offset =>
                   /\ r.err = OK
                   /\ r.vaults = SubSeq(allVaults, offset + 1, total)

====
